---- MODULE Spec2Model ----
(***************************************************************************)
(* Schema designer: the consistency-preserving store in its two            *)
(* realizations (the Dexie/IndexedDB one of lib/db/operations.ts and the    *)
(* REST one of lib/data/backendOperations.ts talking to the Postgres        *)
(* routes), the resolveOps dispatcher and the zustand schema store.         *)
(*                                                                          *)
(* Ids are uuids in the code; here every kind of entity draws fresh ids     *)
(* from its own range (projects 101.., tables 201.., columns 301..,         *)
(* relationships 401..) and NoId is an id that names nothing.               *)
(* Entities carry the fields the checked properties read; names,            *)
(* descriptions, colours and createdAt are left out (createdAt is stamped   *)
(* together with the id, so id order stands for created_at order).          *)
(* Every store operation is an operator from a world (the four stores) to   *)
(* a result [w, out, ret]; one Date.now() value is used per operation.      *)
(***************************************************************************)
EXTENDS Integers, Sequences, FiniteSets, TLC

VARIABLES mode, now, nextId, idb, pg, cache, localStorage, mem, inflight, last

vars == <<mode, now, nextId, idb, pg, cache, localStorage, mem, inflight, last>>

\* ------------------------------------------------------------------ bounds
MaxProjects == 2
MaxTables == 2
MaxColumns == 2
MaxRelationships == 1
MaxClock == 2
MaxMoves == 3
MaxIds == 2
MaxDocTables == 2
MaxDocColumns == 2
MaxDigits == 2
MaxImported == 10
MaxLoads == 2

\* ------------------------------------------------------------- id ranges
NoId == 0
ProjectBase == 100
TableBase == 200
ColumnBase == 300
RelationshipBase == 400

\* ------------------------------------------------------- generic helpers
Has(S, id) == \E e \in S : e.id = id
Get(S, id) == CHOOSE e \in S : e.id = id
Ids(S) == {e.id : e \in S}
Fld(u, e, f) == IF f \in DOMAIN u THEN u[f] ELSE e[f]
NoFields == [f \in {} |-> 0]
Res(w, out, ret) == [w |-> w, out |-> out, ret |-> ret]
\* a JSON null or absent value (only imported documents can carry one: the
\* names of the entities made through the store are left out of the model)
Null == "null"

\* `{...entity, ...updates, updatedAt: now}` for each entity kind
mergeProject(e, u, t) == [id |-> e.id, updatedAt |-> t]
mergeTable(e, u, t) ==
    [id |-> e.id, projectId |-> e.projectId,
     position |-> Fld(u, e, "position"), updatedAt |-> t]
mergeColumn(e, u, t) ==
    [id |-> e.id, tableId |-> e.tableId,
     dataType |-> Fld(u, e, "dataType"),
     nullable |-> Fld(u, e, "nullable"),
     isPrimaryKey |-> Fld(u, e, "isPrimaryKey"),
     orderIndex |-> Fld(u, e, "orderIndex"),
     updatedAt |-> t]
mergeRelationship(e, u, t) ==
    [id |-> e.id, projectId |-> e.projectId,
     sourceTableId |-> Fld(u, e, "sourceTableId"),
     sourceColumnId |-> Fld(u, e, "sourceColumnId"),
     targetTableId |-> Fld(u, e, "targetTableId"),
     targetColumnId |-> Fld(u, e, "targetColumnId"),
     updatedAt |-> t]

\* ============================================================ lib/db (Dexie)
\* The indexes declared by DrawSQLDatabase.  Dexie rejects a where() on a
\* key path that is not indexed ("KeyPath ... is not indexed").
Indexes ==
    [projects |-> {"id", "createdAt", "updatedAt"},
     schemaTables |-> {"id", "projectId", "[projectId+updatedAt]"},
     columns |-> {"id", "tableId", "[tableId+orderIndex]"},
     relationships |-> {"id", "projectId", "sourceTableId", "targetTableId"},
     canvasStates |-> {"projectId"}]

EmptyDb ==
    [projects |-> {}, schemaTables |-> {}, columns |-> {},
     relationships |-> {}, canvasStates |-> {}]

\* Table.update(key, changes): no row with that key is not an error
dexieUpdateProject(db, id, u, t) ==
    [db EXCEPT !.projects =
        {IF e.id = id THEN mergeProject(e, u, t) ELSE e : e \in @}]

frontend_createProject(w, id, t) ==
    Res([w EXCEPT !.idb.projects = @ \cup {[id |-> id, updatedAt |-> t]}],
        "ok", id)

frontend_updateProject(w, id, u, t) ==
    Res([w EXCEPT !.idb = dexieUpdateProject(@, id, u, t)], "ok", NoId)

frontend_deleteProject(w, id) ==
    LET db == w.idb
        tableIds == {e.id : e \in {x \in db.schemaTables : x.projectId = id}}
    IN  Res([w EXCEPT !.idb =
                [projects |-> {e \in db.projects : e.id # id},
                 schemaTables |-> {e \in db.schemaTables : e.projectId # id},
                 columns |-> {e \in db.columns : e.tableId \notin tableIds},
                 relationships |-> {e \in db.relationships : e.projectId # id},
                 canvasStates |-> db.canvasStates \ {id}]],
            "ok", NoId)

frontend_createTable(w, data, id, t) ==
    LET table == [id |-> id, projectId |-> data.projectId,
                  position |-> data.position, updatedAt |-> t]
        db1 == [w.idb EXCEPT !.schemaTables = @ \cup {table}]
    IN  Res([w EXCEPT !.idb = dexieUpdateProject(db1, data.projectId, NoFields, t)],
            "ok", id)

\* variant: the table is updated, its project is not touched
frontend_updateTable_noTouch(w, id, u, t) ==
    IF ~Has(w.idb.schemaTables, id) THEN Res(w, "TableNotFound", NoId)
    ELSE Res([w EXCEPT !.idb.schemaTables =
                 {IF e.id = id THEN mergeTable(e, u, t) ELSE e : e \in @}],
             "ok", NoId)

frontend_updateTable(w, id, u, t) ==
    IF ~Has(w.idb.schemaTables, id) THEN Res(w, "TableNotFound", NoId)
    ELSE LET table == Get(w.idb.schemaTables, id)
             db1 == [w.idb EXCEPT !.schemaTables =
                        {IF e.id = id THEN mergeTable(e, u, t) ELSE e : e \in @}]
         IN  Res([w EXCEPT !.idb = dexieUpdateProject(db1, table.projectId, NoFields, t)],
                 "ok", NoId)

frontend_moveTable(w, id, position, t) ==
    frontend_updateTable(w, id, [position |-> position], t)

\* for (const move of moves) await moveTable(...): the first throw ends the loop
RECURSIVE frontend_moveTables(_, _, _)
frontend_moveTables(w, moves, t) ==
    LET Rest(r) == IF r.out # "ok" THEN r
                   ELSE frontend_moveTables(r.w, Tail(moves), t)
    IN  IF moves = <<>> THEN Res(w, "ok", NoId)
        ELSE Rest(frontend_moveTable(w, Head(moves).id, Head(moves).position, t))

\* the updateTable calls of the loop that wrote (db.schemaTables.update followed
\* by the touch of the project), in order: the project id of each
RECURSIVE frontend_moveTablesWrites(_, _, _)
frontend_moveTablesWrites(w, moves, t) ==
    LET Rest(r) == IF r.out # "ok" THEN <<>>
                   ELSE <<Get(w.idb.schemaTables, Head(moves).id).projectId>>
                        \o frontend_moveTablesWrites(r.w, Tail(moves), t)
    IN  IF moves = <<>> THEN <<>>
        ELSE Rest(frontend_moveTable(w, Head(moves).id, Head(moves).position, t))

frontend_deleteTable(w, id, t) ==
    IF ~Has(w.idb.schemaTables, id) THEN Res(w, "ok", NoId)
    ELSE LET table == Get(w.idb.schemaTables, id)
             db1 == [w.idb EXCEPT
                        !.columns = {e \in @ : e.tableId # id},
                        !.relationships =
                            {e \in @ : e.sourceTableId # id /\ e.targetTableId # id},
                        !.schemaTables = {e \in @ : e.id # id}]
         IN  Res([w EXCEPT !.idb = dexieUpdateProject(db1, table.projectId, NoFields, t)],
                 "ok", NoId)

frontend_createColumn(w, data, id, t) ==
    LET column == [id |-> id, tableId |-> data.tableId,
                   dataType |-> data.dataType, nullable |-> data.nullable,
                   isPrimaryKey |-> data.isPrimaryKey,
                   orderIndex |-> data.orderIndex, updatedAt |-> t]
        w1 == [w EXCEPT !.idb.columns = @ \cup {column}]
    IN  IF Has(w.idb.schemaTables, data.tableId)
        THEN Res(frontend_updateTable(w1, data.tableId, NoFields, t).w, "ok", id)
        ELSE Res(w1, "ok", id)

\* .sortBy('orderIndex') over the tableId index: rows come in primary-key
\* order and the sort is stable
RECURSIVE sortColumns(_)
sortColumns(S) ==
    IF S = {} THEN <<>>
    ELSE LET m == CHOOSE c \in S : \A d \in S :
                     \/ c.orderIndex < d.orderIndex
                     \/ (c.orderIndex = d.orderIndex /\ c.id <= d.id)
         IN  <<m>> \o sortColumns(S \ {m})

frontend_getColumnsByTable(w, tableId) ==
    sortColumns({c \in w.idb.columns : c.tableId = tableId})

frontend_updateColumn(w, id, u, t) ==
    IF ~Has(w.idb.columns, id) THEN Res(w, "ColumnNotFound", NoId)
    ELSE LET column == Get(w.idb.columns, id)
             w1 == [w EXCEPT !.idb.columns =
                       {IF e.id = id THEN mergeColumn(e, u, t) ELSE e : e \in @}]
         IN  frontend_updateTable(w1, column.tableId, NoFields, t)

frontend_deleteColumn(w, id, t) ==
    IF ~Has(w.idb.columns, id) THEN Res(w, "ok", NoId)
    ELSE IF ~({"sourceColumnId", "targetColumnId"} \subseteq Indexes.relationships)
    THEN Res(w, "SchemaError", NoId)
    ELSE LET column == Get(w.idb.columns, id)
             w1 == [w EXCEPT
                       !.idb.relationships =
                           {e \in @ : e.sourceColumnId # id /\ e.targetColumnId # id},
                       !.idb.columns = {e \in @ : e.id # id}]
         IN  frontend_updateTable(w1, column.tableId, NoFields, t)

\* (variant: the list is applied back to front)
RECURSIVE dexieReorder_reversed(_, _, _)
dexieReorder_reversed(cols, columnIds, i) ==
    IF i > Len(columnIds) THEN cols
    ELSE dexieReorder_reversed(
            {IF e.id = columnIds[i]
             THEN [e EXCEPT !.orderIndex = Len(columnIds) - i] ELSE e : e \in cols},
            columnIds, i + 1)

\* columnIds.map((columnId, index) => db.columns.update(columnId, {orderIndex: index}))
RECURSIVE dexieReorder(_, _, _)
dexieReorder(cols, columnIds, i) ==
    IF i > Len(columnIds) THEN cols
    ELSE dexieReorder(
            {IF e.id = columnIds[i] THEN [e EXCEPT !.orderIndex = i - 1] ELSE e : e \in cols},
            columnIds, i + 1)

frontend_reorderColumns(w, tableId, columnIds, t) ==
    LET w1 == [w EXCEPT !.idb.columns = dexieReorder(@, columnIds, 1)]
    IN  frontend_updateTable(w1, tableId, NoFields, t)

\* (variant: only the source column is looked up)
frontend_createRelationship_sourceOnly(w, data, validateDataTypes, id, t) ==
    IF ~Has(w.idb.columns, data.sourceColumnId)
    THEN Res(w, "ColumnNotFound", NoId)
    ELSE LET rel == [id |-> id, projectId |-> data.projectId,
                     sourceTableId |-> data.sourceTableId,
                     sourceColumnId |-> data.sourceColumnId,
                     targetTableId |-> data.targetTableId,
                     targetColumnId |-> data.targetColumnId,
                     updatedAt |-> t]
             db1 == [w.idb EXCEPT !.relationships = @ \cup {rel}]
         IN  Res([w EXCEPT !.idb = dexieUpdateProject(db1, data.projectId, NoFields, t)],
                 "ok", id)

frontend_createRelationship(w, data, validateDataTypes, id, t) ==
    IF ~Has(w.idb.columns, data.sourceColumnId) \/ ~Has(w.idb.columns, data.targetColumnId)
    THEN Res(w, "ColumnNotFound", NoId)
    ELSE IF validateDataTypes
            /\ Get(w.idb.columns, data.sourceColumnId).dataType
                 # Get(w.idb.columns, data.targetColumnId).dataType
    THEN Res(w, "TypeMismatch", NoId)
    ELSE LET rel == [id |-> id, projectId |-> data.projectId,
                     sourceTableId |-> data.sourceTableId,
                     sourceColumnId |-> data.sourceColumnId,
                     targetTableId |-> data.targetTableId,
                     targetColumnId |-> data.targetColumnId,
                     updatedAt |-> t]
             db1 == [w.idb EXCEPT !.relationships = @ \cup {rel}]
         IN  Res([w EXCEPT !.idb = dexieUpdateProject(db1, data.projectId, NoFields, t)],
                 "ok", id)

frontend_updateRelationship(w, id, u, t) ==
    IF ~Has(w.idb.relationships, id) THEN Res(w, "RelationshipNotFound", NoId)
    ELSE LET rel == Get(w.idb.relationships, id)
             db1 == [w.idb EXCEPT !.relationships =
                        {IF e.id = id THEN mergeRelationship(e, u, t) ELSE e : e \in @}]
         IN  Res([w EXCEPT !.idb = dexieUpdateProject(db1, rel.projectId, NoFields, t)],
                 "ok", NoId)

frontend_deleteRelationship(w, id, t) ==
    IF ~Has(w.idb.relationships, id) THEN Res(w, "ok", NoId)
    ELSE LET rel == Get(w.idb.relationships, id)
             db1 == [w.idb EXCEPT !.relationships = {e \in @ : e.id # id}]
         IN  Res([w EXCEPT !.idb = dexieUpdateProject(db1, rel.projectId, NoFields, t)],
                 "ok", NoId)

frontend_saveCanvasState(w, projectId) ==
    Res([w EXCEPT !.idb.canvasStates = @ \cup {projectId}], "ok", NoId)

\* ===================================================== server (Postgres routes)
\* Rows are kept in entity form (mapProject/mapTable/mapColumn/mapRelationship
\* rename the columns).  The foreign keys of ensureDbSchema are all
\* ON DELETE CASCADE; an INSERT that breaks a key, a primary key or a
\* NOT NULL constraint fails.
EmptyPg ==
    [projects |-> {}, schemaTables |-> {}, columns |-> {},
     relationships |-> {}, canvasStates |-> {}]

\* DELETE of schema_tables rows with the cascades to columns and relationships
pgDeleteTables(db, tids) ==
    LET cids == {c.id : c \in {x \in db.columns : x.tableId \in tids}}
    IN  [db EXCEPT
            !.schemaTables = {e \in @ : e.id \notin tids},
            !.columns = {e \in @ : e.tableId \notin tids},
            !.relationships =
                {e \in @ : /\ e.sourceTableId \notin tids
                           /\ e.targetTableId \notin tids
                           /\ e.sourceColumnId \notin cids
                           /\ e.targetColumnId \notin cids}]

\* DELETE FROM projects WHERE id = ... with its cascades
pgDeleteProject(db, id) ==
    LET tids == {e.id : e \in {x \in db.schemaTables : x.projectId = id}}
        d1 == pgDeleteTables(db, tids)
    IN  [d1 EXCEPT
            !.projects = {e \in @ : e.id # id},
            !.relationships = {e \in @ : e.projectId # id},
            !.canvasStates = @ \ {id}]

\* ORDER BY created_at ASC (tables, relationships)
RECURSIVE sortById(_)
sortById(S) ==
    IF S = {} THEN <<>>
    ELSE LET m == CHOOSE e \in S : \A d \in S : e.id <= d.id
         IN  <<m>> \o sortById(S \ {m})

\* ORDER BY order_index ASC, created_at ASC (columns)
pgSortColumns(S) == sortColumns(S)

\* GET /api/projects/:id/schema
GET_schema(db, projectId) ==
    IF ~Has(db.projects, projectId) THEN [status |-> 404, body |-> NoFields]
    ELSE LET tids == {e.id : e \in {x \in db.schemaTables : x.projectId = projectId}}
         IN  [status |-> 200,
              body |-> [project |-> Get(db.projects, projectId),
                        tables |-> sortById({e \in db.schemaTables : e.projectId = projectId}),
                        columns |-> pgSortColumns({e \in db.columns : e.tableId \in tids}),
                        relationships |->
                            sortById({e \in db.relationships : e.projectId = projectId})]]

RECURSIVE pgInsertTables(_, _, _, _)
pgInsertTables(db, projectId, tables, t) ==
    IF tables = <<>> THEN [db |-> db, ok |-> TRUE]
    ELSE LET raw == Head(tables)
             row == [id |-> raw.id, projectId |-> projectId,
                     position |-> raw.position, updatedAt |-> t]
         IN  IF Has(db.schemaTables, raw.id) \/ Fld(raw, [name |-> "t"], "name") = Null
             THEN [db |-> db, ok |-> FALSE]
             ELSE pgInsertTables([db EXCEPT !.schemaTables = @ \cup {row}],
                                 projectId, Tail(tables), t)

\* a column without a data type is left out of normalizedColumns (continue)
RECURSIVE pgInsertColumns(_, _, _)
pgInsertColumns(db, columns, t) ==
    IF columns = <<>> THEN [db |-> db, ok |-> TRUE]
    ELSE LET raw == Head(columns)
             row == [id |-> raw.id, tableId |-> raw.tableId,
                     dataType |-> raw.dataType, nullable |-> raw.nullable,
                     isPrimaryKey |-> raw.isPrimaryKey,
                     orderIndex |-> raw.orderIndex, updatedAt |-> t]
         IN  IF raw.dataType = Null
             THEN pgInsertColumns(db, Tail(columns), t)
             ELSE IF Has(db.columns, raw.id) \/ ~Has(db.schemaTables, raw.tableId)
             THEN [db |-> db, ok |-> FALSE]
             ELSE pgInsertColumns([db EXCEPT !.columns = @ \cup {row}], Tail(columns), t)

RECURSIVE pgInsertRelationships(_, _, _, _)
pgInsertRelationships(db, projectId, rels, t) ==
    IF rels = <<>> THEN [db |-> db, ok |-> TRUE]
    ELSE LET raw == Head(rels)
             row == [id |-> raw.id, projectId |-> projectId,
                     sourceTableId |-> raw.sourceTableId,
                     sourceColumnId |-> raw.sourceColumnId,
                     targetTableId |-> raw.targetTableId,
                     targetColumnId |-> raw.targetColumnId,
                     updatedAt |-> t]
         IN  IF \/ Has(db.relationships, raw.id)
                \/ ~Has(db.schemaTables, raw.sourceTableId)
                \/ ~Has(db.schemaTables, raw.targetTableId)
                \/ ~Has(db.columns, raw.sourceColumnId)
                \/ ~Has(db.columns, raw.targetColumnId)
             THEN [db |-> db, ok |-> FALSE]
             ELSE pgInsertRelationships([db EXCEPT !.relationships = @ \cup {row}],
                                        projectId, Tail(rels), t)

\* PUT /api/projects/:id/schema: separate statements, no transaction
PUT_schema(db, projectId, payload, t) ==
    LET Upserted(d) ==
            IF Has(d.projects, projectId)
            THEN [d EXCEPT !.projects =
                    {IF e.id = projectId THEN mergeProject(e, NoFields, t) ELSE e : e \in @}]
            ELSE [d EXCEPT !.projects = @ \cup {[id |-> projectId, updatedAt |-> t]}]
        Cleared(d) ==
            pgDeleteTables(d, {e.id : e \in {x \in d.schemaTables : x.projectId = projectId}})
        Answer(r) == [db |-> r.db, status |-> IF r.ok THEN 200 ELSE 500]
        Relationships(r) ==
            Answer(IF r.ok
                   THEN pgInsertRelationships(r.db, projectId, payload.relationships, t)
                   ELSE r)
        Columns(r) ==
            Relationships(IF r.ok THEN pgInsertColumns(r.db, payload.columns, t) ELSE r)
    IN  Columns(pgInsertTables(Cleared(Upserted(db)), projectId, payload.tables, t))

\* The statements of PUT one by one, as the handler awaits them.
\* SELECT the project, then INSERT or UPDATE it
PUT_upsertProject(db, projectId, t) ==
    IF Has(db.projects, projectId)
    THEN [db EXCEPT !.projects =
            {IF e.id = projectId THEN mergeProject(e, NoFields, t) ELSE e : e \in @}]
    ELSE [db EXCEPT !.projects = @ \cup {[id |-> projectId, updatedAt |-> t]}]

\* DELETE FROM schema_tables WHERE project_id = ...
PUT_deleteTables(db, projectId) ==
    pgDeleteTables(db, {e.id : e \in {x \in db.schemaTables : x.projectId = projectId}})

\* the next INSERT of a request that still has rows to insert
PUT_insertNext(db, req) ==
    LET Left(r, field) ==
            [db |-> r.db, ok |-> r.ok, req |-> [req EXCEPT ![field] = Tail(@)]]
    IN  IF req.tables # <<>>
        THEN Left(pgInsertTables(db, req.projectId, <<Head(req.tables)>>, req.t), "tables")
        ELSE IF req.columns # <<>>
        THEN Left(pgInsertColumns(db, <<Head(req.columns)>>, req.t), "columns")
        ELSE Left(pgInsertRelationships(db, req.projectId,
                                        <<Head(req.relationships)>>, req.t),
                  "relationships")

\* PATCH /api/projects/:id
PATCH_project(db, id, t) ==
    IF ~Has(db.projects, id) THEN [db |-> db, status |-> 404]
    ELSE [db |-> [db EXCEPT !.projects =
                    {IF e.id = id THEN mergeProject(e, NoFields, t) ELSE e : e \in @}],
          status |-> 200]

\* DELETE /api/projects/:id
DELETE_project(db, id) ==
    IF ~Has(db.projects, id) THEN [db |-> db, status |-> 404]
    ELSE [db |-> pgDeleteProject(db, id), status |-> 200]

\* POST /api/projects (the route file is not part of the sources at hand)
POST_projects(db, id, t) ==
    [db |-> [db EXCEPT !.projects = @ \cup {[id |-> id, updatedAt |-> t]}],
     status |-> 200]

\* GET /api/projects (same)
GET_projects(db) == db.projects

\* ================================================ lib/data/backendOperations
Range(s) == {s[i] : i \in 1..Len(s)}
EmptyMap == [x \in {} |-> NoId]
MapSetAll(m, pairs) ==
    [x \in DOMAIN m \cup {p[1] : p \in pairs} |->
        IF \E p \in pairs : p[1] = x
        THEN (CHOOSE p \in pairs : p[1] = x)[2]
        ELSE m[x]]
MapDeleteAll(m, keys) == [x \in DOMAIN m \ keys |-> m[x]]

EmptyCache ==
    [tableProjectMap |-> EmptyMap, columnTableMap |-> EmptyMap,
     relationshipProjectMap |-> EmptyMap]

indexSchema(c, schema) ==
    [tableProjectMap |->
        MapSetAll(c.tableProjectMap,
                  {<<e.id, schema.project.id>> : e \in Range(schema.tables)}),
     columnTableMap |->
        MapSetAll(c.columnTableMap,
                  {<<e.id, e.tableId>> : e \in Range(schema.columns)}),
     relationshipProjectMap |->
        MapSetAll(c.relationshipProjectMap,
                  {<<e.id, schema.project.id>> : e \in Range(schema.relationships)})]

removeSchemaIndexes(c, schema) ==
    [tableProjectMap |->
        MapDeleteAll(c.tableProjectMap, Ids(Range(schema.tables))),
     columnTableMap |->
        MapDeleteAll(c.columnTableMap, Ids(Range(schema.columns))),
     relationshipProjectMap |->
        MapDeleteAll(c.relationshipProjectMap, Ids(Range(schema.relationships)))]

NoSchema == [project |-> [id |-> NoId, updatedAt |-> 0],
             tables |-> <<>>, columns |-> <<>>, relationships |-> <<>>]

getProjectSchema(w, projectId) ==
    LET Answer(g) ==
            IF g.status # 200 THEN [w |-> w, ok |-> FALSE, schema |-> NoSchema]
            ELSE [w |-> [w EXCEPT !.cache = indexSchema(@, g.body)],
                  ok |-> TRUE, schema |-> g.body]
    IN  Answer(GET_schema(w.pg, projectId))

putProjectSchema(w, projectId, schema, t) ==
    LET Answer(r) ==
            IF r.status # 200 THEN [w |-> [w EXCEPT !.pg = r.db], ok |-> FALSE]
            ELSE [w |-> [w EXCEPT !.pg = r.db, !.cache = indexSchema(@, schema)],
                  ok |-> TRUE]
    IN  Answer(PUT_schema(w.pg, projectId, schema, t))

\* Promise.all over every project, failures dropped; each schema is indexed
RECURSIVE indexAllSchemas(_, _)
indexAllSchemas(w, pids) ==
    IF pids = {} THEN w
    ELSE LET p == CHOOSE x \in pids : TRUE
         IN  indexAllSchemas(getProjectSchema(w, p).w, pids \ {p})

getAllSchemas(w) ==
    [w |-> indexAllSchemas(w, Ids(GET_projects(w.pg))),
     schemas |-> {GET_schema(w.pg, p).body : p \in Ids(GET_projects(w.pg))}]

Found(w, schema, entity) ==
    [w |-> w, out |-> "found", schema |-> schema, entity |-> entity]
NotFound(w, out) ==
    [w |-> w, out |-> out, schema |-> NoSchema, entity |-> NoFields]

\* fallback scan shared by the three finders; field is the schema list searched
scanSchemas(w, field, id) ==
    LET Pick(a, hits) ==
            IF hits = {} THEN NotFound(a.w, "null")
            ELSE LET sc == CHOOSE x \in hits : TRUE
                 IN  Found(a.w, sc, Get(Range(sc[field]), id))
        Scan(a) == Pick(a, {sc \in a.schemas : Has(Range(sc[field]), id)})
    IN  Scan(getAllSchemas(w))

findTableById(w, tableId) ==
    LET Miss(w1) == scanSchemas(w1, "tables", tableId)
        Cached(g) ==
            IF ~g.ok THEN NotFound(w, "ProjectNotFound")
            ELSE IF Has(Range(g.schema.tables), tableId)
            THEN Found(g.w, g.schema, Get(Range(g.schema.tables), tableId))
            ELSE Miss(g.w)
    IN  IF tableId \in DOMAIN w.cache.tableProjectMap
        THEN Cached(getProjectSchema(w, w.cache.tableProjectMap[tableId]))
        ELSE Miss(w)

findColumnById(w, columnId) ==
    LET Miss(w1) == scanSchemas(w1, "columns", columnId)
        Cached(located) ==
            IF located.out = "ProjectNotFound" THEN located
            ELSE IF located.out = "found" /\ Has(Range(located.schema.columns), columnId)
            THEN Found(located.w, located.schema,
                       Get(Range(located.schema.columns), columnId))
            ELSE Miss(located.w)
    IN  IF columnId \in DOMAIN w.cache.columnTableMap
        THEN Cached(findTableById(w, w.cache.columnTableMap[columnId]))
        ELSE Miss(w)

findRelationshipById(w, relationshipId) ==
    LET Miss(w1) == scanSchemas(w1, "relationships", relationshipId)
        Cached(g) ==
            IF ~g.ok THEN NotFound(w, "ProjectNotFound")
            ELSE IF Has(Range(g.schema.relationships), relationshipId)
            THEN Found(g.w, g.schema,
                       Get(Range(g.schema.relationships), relationshipId))
            ELSE Miss(g.w)
    IN  IF relationshipId \in DOMAIN w.cache.relationshipProjectMap
        THEN Cached(getProjectSchema(w, w.cache.relationshipProjectMap[relationshipId]))
        ELSE Miss(w)

\* the write that ends every mutation: a failing PUT makes the call throw
putResult(w, projectId, schema, t, ret) ==
    LET Answer(p) == IF p.ok THEN Res(p.w, "ok", ret) ELSE Res(p.w, "ServerError", NoId)
    IN  Answer(putProjectSchema(w, projectId, schema, t))

SeqMap(s, F(_)) == [i \in 1..Len(s) |-> F(s[i])]

backend_createProject(w, id, t) ==
    Res([w EXCEPT !.pg = POST_projects(@, id, t).db], "ok", id)

backend_updateProject(w, id, u, t) ==
    LET Answer(r) == IF r.status # 200 THEN Res(w, "ProjectNotFound", NoId)
                     ELSE Res([w EXCEPT !.pg = r.db], "ok", NoId)
    IN  Answer(PATCH_project(w.pg, id, t))

backend_deleteProject(w, id) ==
    LET Answer(g, d) ==
            IF d.status # 200 THEN Res(g.w, "ProjectNotFound", NoId)
            ELSE Res([g.w EXCEPT
                         !.pg = d.db,
                         !.cache = IF g.ok THEN removeSchemaIndexes(@, g.schema) ELSE @,
                         !.ls = @ \ {id}],
                     "ok", NoId)
        With(g) == Answer(g, DELETE_project(g.w.pg, id))
    IN  With(getProjectSchema(w, id))

backend_createTable(w, data, id, t) ==
    LET table == [id |-> id, projectId |-> data.projectId,
                  position |-> data.position, updatedAt |-> t]
        With(g) ==
            IF ~g.ok THEN Res(w, "ProjectNotFound", NoId)
            ELSE putResult(g.w, data.projectId,
                           [g.schema EXCEPT !.tables = Append(@, table)], t, id)
    IN  With(getProjectSchema(w, data.projectId))

backend_updateTable(w, id, u, t) ==
    LET With(m) ==
            IF m.out = "ProjectNotFound" THEN Res(m.w, "ProjectNotFound", NoId)
            ELSE IF m.out = "null" THEN Res(m.w, "TableNotFound", NoId)
            ELSE LET nextTable == mergeTable(m.entity, u, t)
                     F(e) == IF e.id = id THEN nextTable ELSE e
                 IN  putResult(m.w, nextTable.projectId,
                               [m.schema EXCEPT !.tables = SeqMap(@, F)], t, NoId)
    IN  With(findTableById(w, id))

\* updateTable as another client runs it, in its two requests.  First half:
\* findTableById with that client's own index maps.
updateTable_find(w, c, id) == findTableById([w EXCEPT !.cache = c], id)

\* Second half: the fetched document, with the one table replaced, is PUT
updateTable_put(db, m, id, u, t) ==
    LET nextTable == mergeTable(m.entity, u, t)
        F(e) == IF e.id = id THEN nextTable ELSE e
        Send(payload) ==
            [payload |-> payload,
             r |-> PUT_schema(db, nextTable.projectId, payload, t)]
    IN  Send([m.schema EXCEPT !.tables = SeqMap(@, F)])

backend_moveTable(w, id, position, t) ==
    backend_updateTable(w, id, [position |-> position], t)

\* new Map filled with set(): keys in first-insertion order, last value kept
RECURSIVE latestPositionById(_)
latestPositionById(moves) ==
    IF moves = <<>> THEN <<>>
    ELSE LET init == latestPositionById(SubSeq(moves, 1, Len(moves) - 1))
             mv == moves[Len(moves)]
             F(e) == IF e.id = mv.id THEN mv ELSE e
         IN  IF Has(Range(init), mv.id) THEN SeqMap(init, F) ELSE Append(init, mv)

\* first loop of moveTables: byProject as a list of [projectId, moves]
RECURSIVE groupByProject(_, _, _)
groupByProject(w, latest, byProject) ==
    LET mv == Head(latest)
        cached == mv.id \in DOMAIN w.cache.tableProjectMap
        Add(projectId) ==
            LET F(g) == IF g.projectId = projectId
                        THEN [g EXCEPT !.moves = Append(@, mv)] ELSE g
            IN  IF \E i \in 1..Len(byProject) : byProject[i].projectId = projectId
                THEN SeqMap(byProject, F)
                ELSE Append(byProject, [projectId |-> projectId, moves |-> <<mv>>])
        Rest(w1, projectId) ==
            groupByProject(w1, Tail(latest),
                           IF projectId = NoId THEN byProject ELSE Add(projectId))
        With(m) ==
            IF m.out = "ProjectNotFound"
            THEN [w |-> m.w, out |-> "ProjectNotFound", byProject |-> byProject]
            ELSE Rest(m.w, IF cached THEN w.cache.tableProjectMap[mv.id]
                           ELSE IF m.out = "found" THEN m.schema.project.id
                           ELSE NoId)
    IN  IF latest = <<>> THEN [w |-> w, out |-> "ok", byProject |-> byProject]
        ELSE With(IF cached THEN NotFound(w, "null") ELSE findTableById(w, mv.id))

\* second loop: one GET and one PUT per project
RECURSIVE writeMoves(_, _, _)
writeMoves(w, byProject, t) ==
    LET grp == Head(byProject)
        F(e) == IF Has(Range(grp.moves), e.id)
                THEN [e EXCEPT !.position = Get(Range(grp.moves), e.id).position,
                               !.updatedAt = t]
                ELSE e
        Rest(p) == IF p.out # "ok" THEN p ELSE writeMoves(p.w, Tail(byProject), t)
        With(g) ==
            IF ~g.ok THEN Res(w, "ProjectNotFound", NoId)
            ELSE Rest(putResult(g.w, grp.projectId,
                                [g.schema EXCEPT !.tables = SeqMap(@, F)], t, NoId))
    IN  IF byProject = <<>> THEN Res(w, "ok", NoId)
        ELSE With(getProjectSchema(w, grp.projectId))

backend_moveTables(w, moves, t) ==
    LET Write(grouped) ==
            IF grouped.out # "ok" THEN Res(grouped.w, grouped.out, NoId)
            ELSE writeMoves(grouped.w, grouped.byProject, t)
        With(latest) ==
            IF latest = <<>> THEN Res(w, "ok", NoId)
            ELSE Write(groupByProject(w, latest, <<>>))
    IN  With(latestPositionById(moves))

\* the PUTs of the second loop, in order: the project id of each request sent
RECURSIVE writeMovesRequests(_, _, _)
writeMovesRequests(w, byProject, t) ==
    LET grp == Head(byProject)
        Rest(p) == IF p.out # "ok" THEN <<>>
                   ELSE writeMovesRequests(p.w, Tail(byProject), t)
        With(g) ==
            IF ~g.ok THEN <<>>
            ELSE <<grp.projectId>> \o Rest(putResult(g.w, grp.projectId, g.schema, t, NoId))
    IN  IF byProject = <<>> THEN <<>>
        ELSE With(getProjectSchema(w, grp.projectId))

backend_moveTablesWrites(w, moves, t) ==
    LET Write(grouped) ==
            IF grouped.out # "ok" THEN <<>>
            ELSE writeMovesRequests(grouped.w, grouped.byProject, t)
        With(latest) ==
            IF latest = <<>> THEN <<>> ELSE Write(groupByProject(w, latest, <<>>))
    IN  With(latestPositionById(moves))

backend_deleteTable(w, id, t) ==
    LET With(m) ==
            IF m.out = "ProjectNotFound" THEN Res(m.w, "ProjectNotFound", NoId)
            ELSE IF m.out = "null" THEN Res(m.w, "ok", NoId)
            ELSE LET removedColumnIds ==
                         {c.id : c \in {x \in Range(m.schema.columns) : x.tableId = id}}
                     KeepT(e) == e.id # id
                     KeepC(e) == e.tableId # id
                     KeepR(e) == /\ e.sourceTableId # id
                                 /\ e.targetTableId # id
                                 /\ e.sourceColumnId \notin removedColumnIds
                                 /\ e.targetColumnId \notin removedColumnIds
                 IN  putResult(m.w, m.schema.project.id,
                               [m.schema EXCEPT
                                   !.tables = SelectSeq(@, KeepT),
                                   !.columns = SelectSeq(@, KeepC),
                                   !.relationships = SelectSeq(@, KeepR)],
                               t, NoId)
    IN  With(findTableById(w, id))

backend_createColumn(w, data, id, t) ==
    LET column == [id |-> id, tableId |-> data.tableId,
                   dataType |-> data.dataType, nullable |-> data.nullable,
                   isPrimaryKey |-> data.isPrimaryKey,
                   orderIndex |-> data.orderIndex, updatedAt |-> t]
        Touch(e) == IF e.id = data.tableId THEN [e EXCEPT !.updatedAt = t] ELSE e
        With(m) ==
            IF m.out = "ProjectNotFound" THEN Res(m.w, "ProjectNotFound", NoId)
            ELSE IF m.out = "null" THEN Res(m.w, "TableNotFound", NoId)
            ELSE putResult(m.w, m.schema.project.id,
                           [m.schema EXCEPT !.columns = Append(@, column),
                                            !.tables = SeqMap(@, Touch)],
                           t, id)
    IN  With(findTableById(w, data.tableId))

\* Array.prototype.sort((a, b) => a.orderIndex - b.orderIndex): stable
RECURSIVE sortByOrderIndex(_)
sortByOrderIndex(s) ==
    IF s = <<>> THEN <<>>
    ELSE LET init == sortByOrderIndex(SubSeq(s, 1, Len(s) - 1))
             x == s[Len(s)]
             k == Cardinality({i \in 1..Len(init) : init[i].orderIndex <= x.orderIndex})
         IN  SubSeq(init, 1, k) \o <<x>> \o SubSeq(init, k + 1, Len(init))

backend_getColumnsByTable(w, tableId) ==
    LET Mine(e) == e.tableId = tableId
        With(m) == IF m.out # "found" THEN <<>>
                   ELSE sortByOrderIndex(SelectSeq(m.schema.columns, Mine))
    IN  With(findTableById(w, tableId))

backend_updateColumn(w, id, u, t) ==
    LET With(m) ==
            IF m.out = "ProjectNotFound" THEN Res(m.w, "ProjectNotFound", NoId)
            ELSE IF m.out = "null" THEN Res(m.w, "ColumnNotFound", NoId)
            ELSE LET nextColumn == mergeColumn(m.entity, u, t)
                     F(e) == IF e.id = id THEN nextColumn ELSE e
                     Touch(e) == IF e.id = nextColumn.tableId
                                 THEN [e EXCEPT !.updatedAt = t] ELSE e
                 IN  putResult(m.w, m.schema.project.id,
                               [m.schema EXCEPT !.columns = SeqMap(@, F),
                                                !.tables = SeqMap(@, Touch)],
                               t, NoId)
    IN  With(findColumnById(w, id))

backend_deleteColumn(w, id, t) ==
    LET With(m) ==
            IF m.out = "ProjectNotFound" THEN Res(m.w, "ProjectNotFound", NoId)
            ELSE IF m.out = "null" THEN Res(m.w, "ok", NoId)
            ELSE LET KeepC(e) == e.id # id
                     KeepR(e) == e.sourceColumnId # id /\ e.targetColumnId # id
                     Touch(e) == IF e.id = m.entity.tableId
                                 THEN [e EXCEPT !.updatedAt = t] ELSE e
                 IN  putResult(m.w, m.schema.project.id,
                               [m.schema EXCEPT
                                   !.columns = SelectSeq(@, KeepC),
                                   !.relationships = SelectSeq(@, KeepR),
                                   !.tables = SeqMap(@, Touch)],
                               t, NoId)
    IN  With(findColumnById(w, id))

\* new Map(columnIds.map((id, index) => [id, index])): the last index of an id
indexById(columnIds, id) ==
    CHOOSE i \in 1..Len(columnIds) :
        columnIds[i] = id /\ \A j \in (i + 1)..Len(columnIds) : columnIds[j] # id

\* (variant: an incomplete list drops the columns it omits)
backend_reorderColumns_dropsOmitted(w, tableId, columnIds, t) ==
    LET Keep(e) == e.tableId # tableId \/ e.id \in Range(columnIds)
        F(e) == IF e.tableId # tableId THEN e
                ELSE [e EXCEPT !.orderIndex = indexById(columnIds, e.id) - 1,
                               !.updatedAt = t]
        Touch(e) == IF e.id = tableId THEN [e EXCEPT !.updatedAt = t] ELSE e
        With(m) ==
            IF m.out = "ProjectNotFound" THEN Res(m.w, "ProjectNotFound", NoId)
            ELSE IF m.out = "null" THEN Res(m.w, "TableNotFound", NoId)
            ELSE putResult(m.w, m.schema.project.id,
                           [m.schema EXCEPT !.columns = SeqMap(SelectSeq(@, Keep), F),
                                            !.tables = SeqMap(@, Touch)],
                           t, NoId)
    IN  With(findTableById(w, tableId))

backend_reorderColumns(w, tableId, columnIds, t) ==
    LET F(e) == IF e.tableId # tableId THEN e
                ELSE IF e.id \notin Range(columnIds) THEN e
                ELSE [e EXCEPT !.orderIndex = indexById(columnIds, e.id) - 1,
                               !.updatedAt = t]
        Touch(e) == IF e.id = tableId THEN [e EXCEPT !.updatedAt = t] ELSE e
        With(m) ==
            IF m.out = "ProjectNotFound" THEN Res(m.w, "ProjectNotFound", NoId)
            ELSE IF m.out = "null" THEN Res(m.w, "TableNotFound", NoId)
            ELSE putResult(m.w, m.schema.project.id,
                           [m.schema EXCEPT !.columns = SeqMap(@, F),
                                            !.tables = SeqMap(@, Touch)],
                           t, NoId)
    IN  With(findTableById(w, tableId))

backend_createRelationship(w, data, validateDataTypes, id, t) ==
    LET rel == [id |-> id, projectId |-> data.projectId,
                sourceTableId |-> data.sourceTableId,
                sourceColumnId |-> data.sourceColumnId,
                targetTableId |-> data.targetTableId,
                targetColumnId |-> data.targetColumnId,
                updatedAt |-> t]
        Check(g, cols) ==
            IF ~Has(cols, data.sourceColumnId) \/ ~Has(cols, data.targetColumnId)
            THEN Res(g.w, "ColumnNotFound", NoId)
            ELSE IF validateDataTypes
                    /\ Get(cols, data.sourceColumnId).dataType
                         # Get(cols, data.targetColumnId).dataType
            THEN Res(g.w, "TypeMismatch", NoId)
            ELSE putResult(g.w, data.projectId,
                           [g.schema EXCEPT !.relationships = Append(@, rel)], t, id)
        With(g) == IF ~g.ok THEN Res(w, "ProjectNotFound", NoId)
                   ELSE Check(g, Range(g.schema.columns))
    IN  With(getProjectSchema(w, data.projectId))

backend_updateRelationship(w, id, u, t) ==
    LET With(m) ==
            IF m.out = "ProjectNotFound" THEN Res(m.w, "ProjectNotFound", NoId)
            ELSE IF m.out = "null" THEN Res(m.w, "RelationshipNotFound", NoId)
            ELSE LET nextRelationship == mergeRelationship(m.entity, u, t)
                     F(e) == IF e.id = id THEN nextRelationship ELSE e
                 IN  putResult(m.w, m.schema.project.id,
                               [m.schema EXCEPT !.relationships = SeqMap(@, F)], t, NoId)
    IN  With(findRelationshipById(w, id))

backend_deleteRelationship(w, id, t) ==
    LET Keep(e) == e.id # id
        With(m) ==
            IF m.out = "ProjectNotFound" THEN Res(m.w, "ProjectNotFound", NoId)
            ELSE IF m.out = "null" THEN Res(m.w, "ok", NoId)
            ELSE putResult(m.w, m.schema.project.id,
                           [m.schema EXCEPT !.relationships = SelectSeq(@, Keep)], t, NoId)
    IN  With(findRelationshipById(w, id))

backend_saveCanvasState(w, projectId) ==
    Res([w EXCEPT !.ls = @ \cup {projectId}], "ok", NoId)

\* ===================================================== lib/data/operations
\* resolveOps(): the realization named by the persistence mode
createProject(w, id, t) ==
    IF mode = "backend" THEN backend_createProject(w, id, t)
    ELSE frontend_createProject(w, id, t)
updateProject(w, id, u, t) ==
    IF mode = "backend" THEN backend_updateProject(w, id, u, t)
    ELSE frontend_updateProject(w, id, u, t)
deleteProject(w, id) ==
    IF mode = "backend" THEN backend_deleteProject(w, id)
    ELSE frontend_deleteProject(w, id)
createTable(w, data, id, t) ==
    IF mode = "backend" THEN backend_createTable(w, data, id, t)
    ELSE frontend_createTable(w, data, id, t)
updateTable(w, id, u, t) ==
    IF mode = "backend" THEN backend_updateTable(w, id, u, t)
    ELSE frontend_updateTable(w, id, u, t)
moveTables(w, moves, t) ==
    IF mode = "backend" THEN backend_moveTables(w, moves, t)
    ELSE frontend_moveTables(w, moves, t)
moveTablesWrites(w, moves, t) ==
    IF mode = "backend" THEN backend_moveTablesWrites(w, moves, t)
    ELSE frontend_moveTablesWrites(w, moves, t)
deleteTable(w, id, t) ==
    IF mode = "backend" THEN backend_deleteTable(w, id, t)
    ELSE frontend_deleteTable(w, id, t)
createColumn(w, data, id, t) ==
    IF mode = "backend" THEN backend_createColumn(w, data, id, t)
    ELSE frontend_createColumn(w, data, id, t)
getColumnsByTable(w, tableId) ==
    IF mode = "backend" THEN backend_getColumnsByTable(w, tableId)
    ELSE frontend_getColumnsByTable(w, tableId)
updateColumn(w, id, u, t) ==
    IF mode = "backend" THEN backend_updateColumn(w, id, u, t)
    ELSE frontend_updateColumn(w, id, u, t)
deleteColumn(w, id, t) ==
    IF mode = "backend" THEN backend_deleteColumn(w, id, t)
    ELSE frontend_deleteColumn(w, id, t)
reorderColumns(w, tableId, columnIds, t) ==
    IF mode = "backend" THEN backend_reorderColumns(w, tableId, columnIds, t)
    ELSE frontend_reorderColumns(w, tableId, columnIds, t)
createRelationship(w, data, validateDataTypes, id, t) ==
    IF mode = "backend" THEN backend_createRelationship(w, data, validateDataTypes, id, t)
    ELSE frontend_createRelationship(w, data, validateDataTypes, id, t)
updateRelationship(w, id, u, t) ==
    IF mode = "backend" THEN backend_updateRelationship(w, id, u, t)
    ELSE frontend_updateRelationship(w, id, u, t)
deleteRelationship(w, id, t) ==
    IF mode = "backend" THEN backend_deleteRelationship(w, id, t)
    ELSE frontend_deleteRelationship(w, id, t)
saveCanvasState(w, projectId) ==
    IF mode = "backend" THEN backend_saveCanvasState(w, projectId)
    ELSE frontend_saveCanvasState(w, projectId)

\* ================================================ schema store (zustand)
\* the in-memory maps are modelled as sets of entities keyed by id
store_loadProject(w, m, projectId) ==
    LET Loaded(res) ==
            IF res.status # 200 THEN [mem |-> m, out |-> "LoadFailed"]
            ELSE [mem |-> [currentProjectId |-> projectId,
                           tables |-> Range(res.body.tables),
                           columns |-> Range(res.body.columns),
                           relationships |-> Range(res.body.relationships)],
                  out |-> "ok"]
        tables == {e \in w.idb.schemaTables : e.projectId = projectId}
    IN  IF mode = "backend" THEN Loaded(GET_schema(w.pg, projectId))
        ELSE [mem |-> [currentProjectId |-> projectId,
                       tables |-> tables,
                       columns |-> {c \in w.idb.columns : c.tableId \in Ids(tables)},
                       relationships |->
                           {e \in w.idb.relationships : e.projectId = projectId}],
              out |-> "ok"]

store_moveTables(w, m, moves, t) ==
    LET Persisted(r, m1) == [w |-> r.w, mem |-> m1, out |-> r.out]
        With(latest) ==
            LET Moved(e) ==
                    IF Has(Range(latest), e.id)
                    THEN [e EXCEPT !.position = Get(Range(latest), e.id).position,
                                   !.updatedAt = t]
                    ELSE e
            IN  IF latest = <<>> THEN [w |-> w, mem |-> m, out |-> "ok"]
                ELSE Persisted(moveTables(w, latest, t),
                               [m EXCEPT !.tables = {Moved(e) : e \in @}])
    IN  With(latestPositionById(moves))

\* ============================================================ duplicateTable
\* newTableId is the id of the copy; the copies of the columns take the ids
\* after ColumnBase + nextC, in the order of the source columns
RECURSIVE frontendCopyColumns(_, _, _, _, _, _)
frontendCopyColumns(w, columns, i, newTableId, nextC, t) ==
    IF i > Len(columns) THEN w
    ELSE frontendCopyColumns(
             frontend_createColumn(
                 w, [columns[i] EXCEPT !.tableId = newTableId],
                 ColumnBase + nextC + i, t).w,
             columns, i + 1, newTableId, nextC, t)

frontend_duplicateTable(w, tableId, newTableId, nextC, t) ==
    IF ~Has(w.idb.schemaTables, tableId) THEN Res(w, "TableNotFound", NoId)
    ELSE LET table == Get(w.idb.schemaTables, tableId)
             data == [projectId |-> table.projectId,
                      position |-> [x |-> table.position.x + 50,
                                    y |-> table.position.y + 50]]
         IN  Res(frontendCopyColumns(
                     frontend_createTable(w, data, newTableId, t).w,
                     frontend_getColumnsByTable(w, tableId), 1, newTableId, nextC, t),
                 "ok", newTableId)

backend_duplicateTable(w, tableId, newTableId, nextC, t) ==
    LET Mine(e) == e.tableId = tableId
        Copy(m, sourceColumns) ==
            putResult(m.w, m.schema.project.id,
                [m.schema EXCEPT
                    !.tables = Append(@,
                        [m.entity EXCEPT
                            !.id = newTableId,
                            !.position = [x |-> m.entity.position.x + 50,
                                          y |-> m.entity.position.y + 50],
                            !.updatedAt = t]),
                    !.columns = @ \o
                        [k \in 1..Len(sourceColumns) |->
                            [sourceColumns[k] EXCEPT
                                !.id = ColumnBase + nextC + k,
                                !.tableId = newTableId,
                                !.updatedAt = t]]],
                t, newTableId)
        With(m) ==
            IF m.out = "ProjectNotFound" THEN Res(m.w, "ProjectNotFound", NoId)
            ELSE IF m.out = "null" THEN Res(m.w, "TableNotFound", NoId)
            ELSE Copy(m, sortByOrderIndex(SelectSeq(m.schema.columns, Mine)))
    IN  With(findTableById(w, tableId))

duplicateTable(w, tableId, newTableId, nextC, t) ==
    IF mode = "backend" THEN backend_duplicateTable(w, tableId, newTableId, nextC, t)
    ELSE frontend_duplicateTable(w, tableId, newTableId, nextC, t)

\* ====================================================== the query operations
Rows(w, out, rows) == [w |-> w, out |-> out, rows |-> rows]

\* where(index).equals(id).toArray(): rows in primary-key order
frontend_getTablesByProject(w, projectId) ==
    Rows(w, "ok", sortById({e \in w.idb.schemaTables : e.projectId = projectId}))

frontend_getRelationshipsByProject(w, projectId) ==
    Rows(w, "ok", sortById({e \in w.idb.relationships : e.projectId = projectId}))

frontend_getRelationshipsByTable(w, tableId) ==
    IF ~({"sourceTableId", "targetTableId"} \subseteq Indexes.relationships)
    THEN Rows(w, "SchemaError", <<>>)
    ELSE Rows(w, "ok", sortById({e \in w.idb.relationships :
                                    e.sourceTableId = tableId \/ e.targetTableId = tableId}))

backend_getTablesByProject(w, projectId) ==
    LET With(g) == IF ~g.ok THEN Rows(w, "ProjectNotFound", <<>>)
                   ELSE Rows(g.w, "ok", g.schema.tables)
    IN  With(getProjectSchema(w, projectId))

backend_getRelationshipsByProject(w, projectId) ==
    LET With(g) == IF ~g.ok THEN Rows(w, "ProjectNotFound", <<>>)
                   ELSE Rows(g.w, "ok", g.schema.relationships)
    IN  With(getProjectSchema(w, projectId))

backend_getRelationshipsByTable(w, tableId) ==
    LET Mine(e) == e.sourceTableId = tableId \/ e.targetTableId = tableId
        With(m) == IF m.out = "ProjectNotFound" THEN Rows(m.w, "ProjectNotFound", <<>>)
                   ELSE IF m.out = "null" THEN Rows(m.w, "ok", <<>>)
                   ELSE Rows(m.w, "ok", SelectSeq(m.schema.relationships, Mine))
    IN  With(findTableById(w, tableId))

\* getColumnsByTable with its outcome: the remote realization throws when the
\* lookup of the table's project throws
queryColumnsByTable(w, tableId) ==
    LET With(m) == IF m.out = "ProjectNotFound" THEN Rows(m.w, "ProjectNotFound", <<>>)
                   ELSE Rows(m.w, "ok", backend_getColumnsByTable(w, tableId))
    IN  IF mode = "backend" THEN With(findTableById(w, tableId))
        ELSE Rows(w, "ok", frontend_getColumnsByTable(w, tableId))

getTablesByProject(w, projectId) ==
    IF mode = "backend" THEN backend_getTablesByProject(w, projectId)
    ELSE frontend_getTablesByProject(w, projectId)
getRelationshipsByProject(w, projectId) ==
    IF mode = "backend" THEN backend_getRelationshipsByProject(w, projectId)
    ELSE frontend_getRelationshipsByProject(w, projectId)
getRelationshipsByTable(w, tableId) ==
    IF mode = "backend" THEN backend_getRelationshipsByTable(w, tableId)
    ELSE frontend_getRelationshipsByTable(w, tableId)

\* ================================================ lib/export (exportSchema)
\* its dbOps is lib/db/operations, whatever the persistence mode is
RECURSIVE flatColumns(_, _)
flatColumns(w, tables) ==
    IF tables = <<>> THEN <<>>
    ELSE frontend_getColumnsByTable(w, Head(tables).id) \o flatColumns(w, Tail(tables))

exportToJSON(w, projectId) ==
    IF ~Has(w.idb.projects, projectId)
    THEN [out |-> "ProjectNotFound", schema |-> NoSchema]
    ELSE LET tables == frontend_getTablesByProject(w, projectId).rows
         IN  [out |-> "ok",
              schema |-> [project |-> Get(w.idb.projects, projectId),
                          tables |-> tables,
                          columns |-> flatColumns(w, tables),
                          relationships |->
                              frontend_getRelationshipsByProject(w, projectId).rows]]

\* ============================================================ lib/sql-generator
\* The generated script is kept as the list of its statements, each a record
\* of what the statement text says (tables and columns are named by their
\* ids); the header comments and the blank lines are left out, and the final
\* sql-formatter pass, which re-indents the text, is not modelled.
SQLDialect == [POSTGRESQL |-> "postgresql", MYSQL |-> "mysql", SQLITE |-> "sqlite"]

SeqIds(s) == [i \in 1..Len(s) |-> s[i].id]

\* new Map(list.map(e => [e.id, e])).get(id) is defined
mapHas(list, id) == \E i \in 1..Len(list) : list[i].id = id

\* columnsMap.get(table.id) || [], sorted by orderIndex
tableCols(columns, tableId) ==
    LET Mine(c) == c.tableId = tableId
    IN  sortByOrderIndex(SelectSeq(columns, Mine))

\* columns.filter(c => c.isPrimaryKey)
pkColumns(columns) ==
    LET IsKey(c) == c.isPrimaryKey
    IN  SelectSeq(columns, IsKey)

\* postgres / mysql generateCreateTable: the column definitions, then one
\* PRIMARY KEY (...) constraint when the table has primary-key columns;
\* inlineKeys are the columns whose own definition says PRIMARY KEY
generateCreateTable(table, columns) ==
    [kind |-> "CREATE TABLE", table |-> table.id, columns |-> SeqIds(columns),
     inlineKeys |-> <<>>,
     constraints |->
         IF Len(pkColumns(columns)) > 0
         THEN <<[kind |-> "PRIMARY KEY", relationship |-> NoId,
                 columns |-> SeqIds(pkColumns(columns))]>>
         ELSE <<>>]

\* sqlite.generateCreateTableWithFK: PRIMARY KEY is part of the definition of
\* each primary-key column; a clause per relationship of the table
\* whose target table, source column and target column are all found
sqlite_generateCreateTableWithFK(table, columns, relationships, allTables, allColumns) ==
    LET Resolved(rel) ==
            /\ rel.sourceTableId = table.id
            /\ mapHas(allTables, rel.targetTableId)
            /\ mapHas(allColumns, rel.sourceColumnId)
            /\ mapHas(allColumns, rel.targetColumnId)
        resolved == SelectSeq(relationships, Resolved)
    IN  [kind |-> "CREATE TABLE", table |-> table.id, columns |-> SeqIds(columns),
         inlineKeys |-> SeqIds(pkColumns(columns)),
         constraints |->
             [k \in 1..Len(resolved) |->
                 [kind |-> "FOREIGN KEY", relationship |-> resolved[k].id,
                  column |-> resolved[k].sourceColumnId,
                  references |-> [table |-> resolved[k].targetTableId,
                                  column |-> resolved[k].targetColumnId]]]]

generateAlterTableFK(rel) ==
    [kind |-> "ALTER TABLE", table |-> rel.sourceTableId, relationship |-> rel.id,
     column |-> rel.sourceColumnId,
     references |-> [table |-> rel.targetTableId, column |-> rel.targetColumnId]]

generateSQL(dialect, tables, columns, relationships) ==
    LET createTables ==
            [i \in 1..Len(tables) |->
                IF dialect = SQLDialect.SQLITE
                THEN LET Mine(r) == r.sourceTableId = tables[i].id
                     IN  sqlite_generateCreateTableWithFK(
                             tables[i], tableCols(columns, tables[i].id),
                             SelectSeq(relationships, Mine), tables, columns)
                ELSE generateCreateTable(tables[i], tableCols(columns, tables[i].id))]
        Resolved(rel) ==
            /\ mapHas(tables, rel.sourceTableId)
            /\ mapHas(tables, rel.targetTableId)
            /\ mapHas(columns, rel.sourceColumnId)
            /\ mapHas(columns, rel.targetColumnId)
        resolved == SelectSeq(relationships, Resolved)
    IN  IF dialect = SQLDialect.SQLITE THEN createTables
        ELSE createTables \o [k \in 1..Len(resolved) |-> generateAlterTableFK(resolved[k])]

exportToSQL(w, projectId, dialect) ==
    LET With(e) ==
            IF e.out # "ok" THEN [out |-> e.out, schema |-> e.schema, sql |-> <<>>]
            ELSE [out |-> "ok", schema |-> e.schema,
                  sql |-> generateSQL(dialect, e.schema.tables, e.schema.columns,
                                      e.schema.relationships)]
    IN  With(exportToJSON(w, projectId))

\* ---------------------------------------------- column types in the script
\* A column type is [base, args]: the text is base when args is empty and
\* base(args[1],...) otherwise.  The optional fields of a Column (length,
\* precision, scale) are fields the record may not have.
Truthy(column, field) == field \in DOMAIN column /\ column[field] # 0

postgres_DATA_TYPE_MAP ==
    [INTEGER |-> "INTEGER", DECIMAL |-> "DECIMAL", NUMERIC |-> "NUMERIC",
     SERIAL |-> "SERIAL", VARCHAR |-> "VARCHAR"]

mysql_DATA_TYPE_MAP ==
    [INTEGER |-> "INT", DECIMAL |-> "DECIMAL", NUMERIC |-> "DECIMAL",
     SERIAL |-> "INT AUTO_INCREMENT", VARCHAR |-> "VARCHAR"]

postgres_mapDataType(column) ==
    LET baseType == postgres_DATA_TYPE_MAP[column.dataType]
    IN  IF Truthy(column, "length") /\ column.dataType = "VARCHAR"
        THEN [base |-> baseType, args |-> <<column.length>>]
        ELSE IF /\ Truthy(column, "precision") /\ Truthy(column, "scale")
                /\ column.dataType \in {"DECIMAL", "NUMERIC"}
        THEN [base |-> baseType, args |-> <<column.precision, column.scale>>]
        ELSE [base |-> baseType, args |-> <<>>]

mysql_mapDataType(column) ==
    LET baseType == mysql_DATA_TYPE_MAP[column.dataType]
    IN  IF column.dataType = "SERIAL"
        THEN [base |-> IF column.isAutoIncrement THEN baseType ELSE "INT",
              args |-> <<>>]
        ELSE IF Truthy(column, "length") /\ column.dataType = "VARCHAR"
        THEN [base |-> baseType, args |-> <<column.length>>]
        ELSE IF /\ Truthy(column, "precision") /\ Truthy(column, "scale")
                /\ column.dataType \in {"DECIMAL", "NUMERIC"}
        THEN [base |-> baseType, args |-> <<column.precision, column.scale>>]
        ELSE [base |-> baseType, args |-> <<>>]

mapDataType(dialect, column) ==
    IF dialect = SQLDialect.MYSQL THEN mysql_mapDataType(column)
    ELSE postgres_mapDataType(column)

\* ================================================ lib/export (importSchema)
\* A document is a record [tables, columns, relationships] of sequences; its
\* entries carry ids of their own.  An import draws its fresh ids from
\* ids = [t, c, r], the numbers of table, column and relationship ids handed
\* out so far.

IMPORT_LAYOUT ==
    [startX |-> 100, startY |-> 100, horizontalGap |-> 420, verticalGap |-> 320,
     projectOffsetX |-> 520]

getImportGridColumns(tableCount) ==
    IF tableCount <= 1 THEN 1
    ELSE IF tableCount <= 4 THEN 2
    ELSE IF tableCount <= 9 THEN 3
    ELSE 4

\* variant: the grid starts at the default start whatever the destination holds
importGrid_defaultStart(existingTables, tableCount) ==
    [startX |-> IMPORT_LAYOUT.startX, startY |-> IMPORT_LAYOUT.startY,
     columnsPerRow |-> getImportGridColumns(tableCount)]

\* gridStartX, gridStartY and columnsPerRow from the destination's tables
importGrid(existingTables, tableCount) ==
    LET xs == {e.position.x : e \in existingTables}
        ys == {e.position.y : e \in existingTables}
    IN  [startX |-> IF existingTables = {} THEN IMPORT_LAYOUT.startX
                    ELSE (CHOOSE x \in xs : \A z \in xs : z <= x)
                             + IMPORT_LAYOUT.projectOffsetX,
         startY |-> IF existingTables = {} THEN IMPORT_LAYOUT.startY
                    ELSE CHOOSE y \in ys : \A z \in ys : y <= z,
         columnsPerRow |-> getImportGridColumns(tableCount)]

gridPosition(grid, index) ==
    [x |-> grid.startX + (index % grid.columnsPerRow) * IMPORT_LAYOUT.horizontalGap,
     y |-> grid.startY + (index \div grid.columnsPerRow) * IMPORT_LAYOUT.verticalGap]

ImportState(w, ids) ==
    [w |-> w, ids |-> ids, tableIdMap |-> EmptyMap, columnIdMap |-> EmptyMap,
     out |-> "ok"]

\* for (const [index, table] of schema.tables.entries()) createTable(...)
RECURSIVE frontendImportTables(_, _, _, _, _, _)
frontendImportTables(st, tables, i, projectId, grid, t) ==
    LET table == tables[i]
        data == [projectId |-> projectId, position |-> gridPosition(grid, i - 1)]
        Step(r) ==
            IF r.out # "ok" THEN [st EXCEPT !.w = r.w, !.out = r.out]
            ELSE [st EXCEPT !.w = r.w, !.ids.t = @ + 1,
                            !.tableIdMap = MapSetAll(@, {<<table.id, r.ret>>})]
    IN  IF i > Len(tables) \/ st.out # "ok" THEN st
        ELSE frontendImportTables(
                 Step(createTable(st.w, data, TableBase + st.ids.t + 1, t)),
                 tables, i + 1, projectId, grid, t)

\* variant: a column whose table is not mapped is created all the same, under
\* the table id the document gives
RECURSIVE frontendImportColumns_keepsUnresolved(_, _, _, _)
frontendImportColumns_keepsUnresolved(st, columns, i, t) ==
    LET column == columns[i]
        data == [tableId |-> IF column.tableId \in DOMAIN st.tableIdMap
                             THEN st.tableIdMap[column.tableId]
                             ELSE column.tableId,
                 dataType |-> column.dataType, nullable |-> column.nullable,
                 isPrimaryKey |-> column.isPrimaryKey,
                 orderIndex |-> column.orderIndex]
        Step(r) ==
            IF r.out # "ok" THEN [st EXCEPT !.w = r.w, !.out = r.out]
            ELSE [st EXCEPT !.w = r.w, !.ids.c = @ + 1,
                            !.columnIdMap = MapSetAll(@, {<<column.id, r.ret>>})]
    IN  IF i > Len(columns) \/ st.out # "ok" THEN st
        ELSE frontendImportColumns_keepsUnresolved(
                 Step(createColumn(st.w, data, ColumnBase + st.ids.c + 1, t)),
                 columns, i + 1, t)

\* for (const column of schema.columns): skipped when its table is not mapped
RECURSIVE frontendImportColumns(_, _, _, _)
frontendImportColumns(st, columns, i, t) ==
    LET column == columns[i]
        data == [tableId |-> st.tableIdMap[column.tableId],
                 dataType |-> column.dataType, nullable |-> column.nullable,
                 isPrimaryKey |-> column.isPrimaryKey,
                 orderIndex |-> column.orderIndex]
        Step(r) ==
            IF r.out # "ok" THEN [st EXCEPT !.w = r.w, !.out = r.out]
            ELSE [st EXCEPT !.w = r.w, !.ids.c = @ + 1,
                            !.columnIdMap = MapSetAll(@, {<<column.id, r.ret>>})]
    IN  IF i > Len(columns) \/ st.out # "ok" THEN st
        ELSE IF column.tableId \notin DOMAIN st.tableIdMap
        THEN frontendImportColumns(st, columns, i + 1, t)
        ELSE frontendImportColumns(
                 Step(createColumn(st.w, data, ColumnBase + st.ids.c + 1, t)),
                 columns, i + 1, t)

\* for (const rel of schema.relationships): skipped when a reference is not
\* mapped; a createRelationship that throws is caught and skipped too
RECURSIVE frontendImportRelationships(_, _, _, _, _)
frontendImportRelationships(st, rels, i, projectId, t) ==
    LET rel == rels[i]
        data == [projectId |-> projectId,
                 sourceTableId |-> st.tableIdMap[rel.sourceTableId],
                 sourceColumnId |-> st.columnIdMap[rel.sourceColumnId],
                 targetTableId |-> st.tableIdMap[rel.targetTableId],
                 targetColumnId |-> st.columnIdMap[rel.targetColumnId]]
        Step(r) ==
            IF r.out # "ok" THEN [st EXCEPT !.w = r.w]
            ELSE [st EXCEPT !.w = r.w, !.ids.r = @ + 1]
    IN  IF i > Len(rels) THEN st
        ELSE IF \/ rel.sourceTableId \notin DOMAIN st.tableIdMap
                \/ rel.targetTableId \notin DOMAIN st.tableIdMap
                \/ rel.sourceColumnId \notin DOMAIN st.columnIdMap
                \/ rel.targetColumnId \notin DOMAIN st.columnIdMap
        THEN frontendImportRelationships(st, rels, i + 1, projectId, t)
        ELSE frontendImportRelationships(
                 Step(createRelationship(st.w, data, FALSE,
                                         RelationshipBase + st.ids.r + 1, t)),
                 rels, i + 1, projectId, t)

importToFrontend(w, schema, projectId, ids, t) ==
    LET Rels(st) ==
            IF st.out # "ok" THEN st
            ELSE frontendImportRelationships(st, schema.relationships, 1, projectId, t)
        Cols(st) ==
            Rels(IF st.out # "ok" THEN st
                 ELSE frontendImportColumns(st, schema.columns, 1, t))
        With(existing) ==
            IF existing.out # "ok"
            THEN [ImportState(existing.w, ids) EXCEPT !.out = existing.out]
            ELSE Cols(frontendImportTables(
                          ImportState(existing.w, ids), schema.tables, 1, projectId,
                          importGrid(Range(existing.rows), Len(schema.tables)), t))
    IN  With(getTablesByProject(w, projectId))

importToBackend(w, schema, projectId, ids, t) ==
    LET tableIdMap ==
            [x \in Range(SeqIds(schema.tables)) |->
                TableBase + ids.t + indexById(SeqIds(schema.tables), x)]
        KeepC(c) == c.tableId \in DOMAIN tableIdMap
        keptColumns == SelectSeq(schema.columns, KeepC)
        columnIdMap ==
            [x \in Range(SeqIds(keptColumns)) |->
                ColumnBase + ids.c + indexById(SeqIds(keptColumns), x)]
        KeepR(r) == /\ r.sourceTableId \in DOMAIN tableIdMap
                    /\ r.targetTableId \in DOMAIN tableIdMap
                    /\ r.sourceColumnId \in DOMAIN columnIdMap
                    /\ r.targetColumnId \in DOMAIN columnIdMap
        keptRelationships == SelectSeq(schema.relationships, KeepR)
        importedTables(grid) ==
            [i \in 1..Len(schema.tables) |->
                [id |-> TableBase + ids.t + i, projectId |-> projectId,
                 name |-> Fld(schema.tables[i], [name |-> "t"], "name"),
                 position |-> gridPosition(grid, i - 1), updatedAt |-> t]]
        importedColumns ==
            [k \in 1..Len(keptColumns) |->
                [id |-> ColumnBase + ids.c + k,
                 tableId |-> tableIdMap[keptColumns[k].tableId],
                 dataType |-> keptColumns[k].dataType,
                 nullable |-> keptColumns[k].nullable,
                 isPrimaryKey |-> keptColumns[k].isPrimaryKey,
                 orderIndex |-> keptColumns[k].orderIndex, updatedAt |-> t]]
        importedRelationships ==
            [k \in 1..Len(keptRelationships) |->
                [id |-> RelationshipBase + ids.r + k, projectId |-> projectId,
                 sourceTableId |-> tableIdMap[keptRelationships[k].sourceTableId],
                 sourceColumnId |-> columnIdMap[keptRelationships[k].sourceColumnId],
                 targetTableId |-> tableIdMap[keptRelationships[k].targetTableId],
                 targetColumnId |-> columnIdMap[keptRelationships[k].targetColumnId],
                 updatedAt |-> t]]
        used == [t |-> ids.t + Len(schema.tables), c |-> ids.c + Len(keptColumns),
                 r |-> ids.r + Len(keptRelationships)]
        Answer(r) ==
            [w |-> [w EXCEPT !.pg = r.db], ids |-> used,
             tableIdMap |-> tableIdMap, columnIdMap |-> columnIdMap,
             out |-> IF r.status = 200 THEN "ok" ELSE "ServerError"]
        Put(existingSchema) ==
            Answer(PUT_schema(w.pg, projectId,
                [project |-> [existingSchema.project EXCEPT !.updatedAt = t],
                 tables |-> existingSchema.tables
                     \o importedTables(importGrid(Range(existingSchema.tables),
                                                  Len(schema.tables))),
                 columns |-> existingSchema.columns \o importedColumns,
                 relationships |-> existingSchema.relationships \o importedRelationships],
                t))
        With(g) == Put(IF g.status = 200 THEN g.body
                       ELSE [NoSchema EXCEPT !.project = Get(w.pg.projects, projectId)])
    IN  IF ~Has(w.pg.projects, projectId)
        THEN [ImportState(w, ids) EXCEPT !.out = "ProjectNotFound"]
        ELSE With(GET_schema(w.pg, projectId))

importFromJSON(w, schema, projectId, ids, t) ==
    IF mode = "backend" THEN importToBackend(w, schema, projectId, ids, t)
    ELSE importToFrontend(w, schema, projectId, ids, t)

\* ================================================= schema store (actions)
\* The maps of useSchemaStore are kept as sets of entities keyed by id.  An
\* action answers [w, mem, out, ret]: the stores, the maps, the outcome and
\* the id it returns.

\* dbOps.getTable / getColumn / getRelationship: found says whether an entity
\* came back, out is "ok" unless the call threw
Got(w, out, found, entity) == [w |-> w, out |-> out, found |-> found, entity |-> entity]

GotLocal(w, S, id) ==
    Got(w, "ok", Has(S, id), IF Has(S, id) THEN Get(S, id) ELSE NoFields)

GotRemote(f) ==
    Got(f.w, IF f.out = "ProjectNotFound" THEN f.out ELSE "ok", f.out = "found", f.entity)

getTable(w, id) ==
    IF mode = "backend" THEN GotRemote(findTableById(w, id))
    ELSE GotLocal(w, w.idb.schemaTables, id)

getColumn(w, id) ==
    IF mode = "backend" THEN GotRemote(findColumnById(w, id))
    ELSE GotLocal(w, w.idb.columns, id)

getRelationship(w, id) ==
    IF mode = "backend" THEN GotRemote(findRelationshipById(w, id))
    ELSE GotLocal(w, w.idb.relationships, id)

\* new Map(state[field]).set(entity.id, entity)
mapSet(m, field, entity) ==
    [m EXCEPT ![field] = {x \in @ : x.id # entity.id} \cup {entity}]

Acted(w, m, out, ret) == [w |-> w, mem |-> m, out |-> out, ret |-> ret]

\* `const e = await dbOps.getX(id); if (e) set(...)` after the call r
Refreshed(r, m, field, g) ==
    IF g.out # "ok" THEN Acted(g.w, m, g.out, r.ret)
    ELSE Acted(g.w, IF g.found THEN mapSet(m, field, g.entity) ELSE m, "ok", r.ret)

store_addTable(w, m, data, id, t) ==
    LET With(r) == IF r.out # "ok" THEN Acted(r.w, m, r.out, r.ret)
                   ELSE Refreshed(r, m, "tables", getTable(r.w, r.ret))
    IN  With(createTable(w, data, id, t))

store_updateTable(w, m, id, u, t) ==
    LET With(r) == IF r.out # "ok" THEN Acted(r.w, m, r.out, NoId)
                   ELSE Refreshed(r, m, "tables", getTable(r.w, id))
    IN  With(updateTable(w, id, u, t))

store_deleteTable(w, m, id, t) ==
    LET With(r) ==
            IF r.out # "ok" THEN Acted(r.w, m, r.out, NoId)
            ELSE Acted(r.w,
                       [m EXCEPT !.tables = {e \in @ : e.id # id},
                                 !.columns = {c \in @ : c.tableId # id},
                                 !.relationships =
                                     {e \in @ : /\ e.sourceTableId # id
                                                /\ e.targetTableId # id}],
                       "ok", NoId)
    IN  With(deleteTable(w, id, t))

\* the copy is picked up by reloading the current project
store_duplicateTable(w, m, tableId, newTableId, nextC, t) ==
    LET Reloaded(r, l) == Acted(r.w, l.mem, l.out, r.ret)
        With(r) ==
            IF r.out # "ok" THEN Acted(r.w, m, r.out, r.ret)
            ELSE IF m.currentProjectId = NoId THEN Acted(r.w, m, "ok", r.ret)
            ELSE Reloaded(r, store_loadProject(r.w, m, m.currentProjectId))
    IN  With(duplicateTable(w, tableId, newTableId, nextC, t))

store_addColumn(w, m, data, id, t) ==
    LET With(r) == IF r.out # "ok" THEN Acted(r.w, m, r.out, r.ret)
                   ELSE Refreshed(r, m, "columns", getColumn(r.w, r.ret))
    IN  With(createColumn(w, data, id, t))

store_updateColumn(w, m, id, u, t) ==
    LET With(r) == IF r.out # "ok" THEN Acted(r.w, m, r.out, NoId)
                   ELSE Refreshed(r, m, "columns", getColumn(r.w, id))
    IN  With(updateColumn(w, id, u, t))

store_deleteColumn(w, m, id, t) ==
    LET With(r) ==
            IF r.out # "ok" THEN Acted(r.w, m, r.out, NoId)
            ELSE Acted(r.w,
                       [m EXCEPT !.columns = {c \in @ : c.id # id},
                                 !.relationships =
                                     {e \in @ : /\ e.sourceColumnId # id
                                                /\ e.targetColumnId # id}],
                       "ok", NoId)
    IN  With(deleteColumn(w, id, t))

\* the columns of the table are read back and set over the map
store_reorderColumns(w, m, tableId, columnIds, t) ==
    LET Reloaded(r, columns) ==
            Acted(r.w,
                  [m EXCEPT !.columns =
                       {c \in @ : ~Has(Range(columns), c.id)} \cup Range(columns)],
                  "ok", NoId)
        With(r) == IF r.out # "ok" THEN Acted(r.w, m, r.out, NoId)
                   ELSE Reloaded(r, getColumnsByTable(r.w, tableId))
    IN  With(reorderColumns(w, tableId, columnIds, t))

store_addRelationship(w, m, data, validateDataTypes, id, t) ==
    LET With(r) == IF r.out # "ok" THEN Acted(r.w, m, r.out, r.ret)
                   ELSE Refreshed(r, m, "relationships", getRelationship(r.w, r.ret))
    IN  With(createRelationship(w, data, validateDataTypes, id, t))

store_updateRelationship(w, m, id, u, t) ==
    LET With(r) == IF r.out # "ok" THEN Acted(r.w, m, r.out, NoId)
                   ELSE Refreshed(r, m, "relationships", getRelationship(r.w, id))
    IN  With(updateRelationship(w, id, u, t))

store_deleteRelationship(w, m, id, t) ==
    LET With(r) ==
            IF r.out # "ok" THEN Acted(r.w, m, r.out, NoId)
            ELSE Acted(r.w, [m EXCEPT !.relationships = {e \in @ : e.id # id}],
                       "ok", NoId)
    IN  With(deleteRelationship(w, id, t))

\* ============================================================ state machine
World == [idb |-> idb, pg |-> pg, cache |-> cache, ls |-> localStorage]
\* requests under way: the mutation each other client is in the middle of, and
\* the PUT the server is in the middle of
Sessions == {"A", "B"}
NoPut == [pc |-> "none"]
NoImport == [pc |-> "none"]
NoneInFlight ==
    [sessions |-> [s \in Sessions |->
                      [pc |-> "idle", cache |-> EmptyCache, req |-> NoFields,
                       done |-> [out |-> "none"]]],
     put |-> NoPut, import |-> NoImport, loads |-> <<>>]
EmptyMem == [currentProjectId |-> NoId, tables |-> {}, columns |-> {},
             relationships |-> {}]

ProjectIds == {ProjectBase + i : i \in 1..nextId.p}
TableIds == {TableBase + i : i \in 1..nextId.t}
ColumnIds == {ColumnBase + i : i \in 1..nextId.c}
RelationshipIds == {RelationshipBase + i : i \in 1..nextId.r}

\* the persisted store of the active realization
Store == IF mode = "backend" THEN pg ELSE idb
CanvasStates == IF mode = "backend" THEN localStorage ELSE idb.canvasStates

InitWith(modes) ==
    /\ mode \in modes
    /\ now = 1
    /\ nextId = [p |-> 0, t |-> 0, c |-> 0, r |-> 0]
    /\ idb = EmptyDb
    /\ pg = EmptyPg
    /\ cache = EmptyCache
    /\ localStorage = {}
    /\ mem = EmptyMem
    /\ inflight = NoneInFlight
    /\ last = [op |-> "init", arg |-> NoFields, out |-> "ok", ret |-> NoId]

Init == InitWith({"frontend", "backend"})

\* the effect of one call of a store operation
Do(r, op, arg) ==
    /\ idb' = r.w.idb
    /\ pg' = r.w.pg
    /\ cache' = r.w.cache
    /\ localStorage' = r.w.ls
    /\ last' = [op |-> op, arg |-> arg, out |-> r.out, ret |-> r.ret]

\* a creating call: the next id of its kind is used up when it succeeds
Created(r, op, arg, kind) ==
    /\ Do(r, op, arg)
    /\ nextId' = IF r.ret # NoId THEN [nextId EXCEPT ![kind] = @ + 1] ELSE nextId

\* Date.now() moves on between calls
Tick ==
    /\ now < MaxClock
    /\ now' = now + 1
    /\ last' = [op |-> "tick", arg |-> NoFields, out |-> "ok", ret |-> NoId]
    /\ UNCHANGED <<mode, nextId, idb, pg, cache, localStorage, mem, inflight>>

CreateProject ==
    /\ nextId.p < MaxProjects
    /\ LET id == ProjectBase + nextId.p + 1
       IN  Do(createProject(World, id, now), "createProject", NoFields)
    /\ nextId' = [nextId EXCEPT !.p = @ + 1]
    /\ UNCHANGED <<mode, now, mem, inflight>>

UpdateProject(pids) ==
    \E id \in pids :
        /\ Do(updateProject(World, id, NoFields, now), "updateProject", [id |-> id])
        /\ UNCHANGED <<mode, now, nextId, mem, inflight>>

DeleteProject(pids) ==
    \E id \in pids :
        /\ Do(deleteProject(World, id), "deleteProject", [id |-> id])
        /\ UNCHANGED <<mode, now, nextId, mem, inflight>>

SaveCanvasState(pids) ==
    \E id \in pids :
        /\ Do(saveCanvasState(World, id), "saveCanvasState", [id |-> id])
        /\ UNCHANGED <<mode, now, nextId, mem, inflight>>

CreateTable(pids, positions) ==
    \E projectId \in pids, position \in positions :
        /\ nextId.t < MaxTables
        /\ LET data == [projectId |-> projectId, position |-> position]
           IN  Created(createTable(World, data, TableBase + nextId.t + 1, now),
                       "createTable", data, "t")
        /\ UNCHANGED <<mode, now, mem, inflight>>

UpdateTable(tids, updates) ==
    \E id \in tids, u \in updates :
        /\ Do(updateTable(World, id, u, now), "updateTable", [id |-> id, updates |-> u])
        /\ UNCHANGED <<mode, now, nextId, mem, inflight>>

DeleteTable(tids) ==
    \E id \in tids :
        /\ Do(deleteTable(World, id, now), "deleteTable", [id |-> id])
        /\ UNCHANGED <<mode, now, nextId, mem, inflight>>

MoveTables(movesets) ==
    \E moves \in movesets :
        /\ Do(moveTables(World, moves, now), "moveTables", [moves |-> moves])
        /\ UNCHANGED <<mode, now, nextId, mem, inflight>>

CreateColumn(tids, dataTypes, nullables, primaryKeys, orderIndexes) ==
    \E tableId \in tids, dataType \in dataTypes, nullable \in nullables,
       isPrimaryKey \in primaryKeys, orderIndex \in orderIndexes :
        /\ nextId.c < MaxColumns
        /\ LET data == [tableId |-> tableId, dataType |-> dataType,
                        nullable |-> nullable, isPrimaryKey |-> isPrimaryKey,
                        orderIndex |-> orderIndex]
           IN  Created(createColumn(World, data, ColumnBase + nextId.c + 1, now),
                       "createColumn", data, "c")
        /\ UNCHANGED <<mode, now, mem, inflight>>

UpdateColumn(cids, updates) ==
    \E id \in cids, u \in updates :
        /\ Do(updateColumn(World, id, u, now), "updateColumn", [id |-> id, updates |-> u])
        /\ UNCHANGED <<mode, now, nextId, mem, inflight>>

DeleteColumn(cids) ==
    \E id \in cids :
        /\ Do(deleteColumn(World, id, now), "deleteColumn", [id |-> id])
        /\ UNCHANGED <<mode, now, nextId, mem, inflight>>

ReorderColumns(tids, idLists) ==
    \E tableId \in tids, columnIds \in idLists :
        /\ Do(reorderColumns(World, tableId, columnIds, now), "reorderColumns",
              [tableId |-> tableId, columnIds |-> columnIds])
        /\ UNCHANGED <<mode, now, nextId, mem, inflight>>

CreateRelationship(requests, validates) ==
    \E data \in requests, validateDataTypes \in validates :
        LET Within(r) ==
                /\ r.ret # NoId => nextId.r < MaxRelationships
                /\ Created(r, "createRelationship",
                           [data |-> data, validateDataTypes |-> validateDataTypes], "r")
        IN  /\ Within(createRelationship(World, data, validateDataTypes,
                                         RelationshipBase + nextId.r + 1, now))
            /\ UNCHANGED <<mode, now, mem, inflight>>

UpdateRelationship(rids, updates) ==
    \E id \in rids, u \in updates :
        /\ Do(updateRelationship(World, id, u, now), "updateRelationship",
              [id |-> id, updates |-> u])
        /\ UNCHANGED <<mode, now, nextId, mem, inflight>>

DeleteRelationship(rids) ==
    \E id \in rids :
        /\ Do(deleteRelationship(World, id, now), "deleteRelationship", [id |-> id])
        /\ UNCHANGED <<mode, now, nextId, mem, inflight>>

LoadProject(pids) ==
    \E projectId \in pids :
        LET Set(r) ==
                /\ mem' = r.mem
                /\ last' = [op |-> "store.loadProject", arg |-> [id |-> projectId],
                            out |-> r.out, ret |-> NoId]
        IN  /\ Set(store_loadProject(World, mem, projectId))
            /\ UNCHANGED <<mode, now, nextId, idb, pg, cache, localStorage, inflight>>

StoreMoveTables(movesets) ==
    \E moves \in movesets :
        LET Set(r) ==
                /\ Do([w |-> r.w, out |-> r.out, ret |-> NoId], "store.moveTables",
                      [moves |-> moves])
                /\ mem' = r.mem
        IN  /\ Set(store_moveTables(World, mem, moves, now))
            /\ UNCHANGED <<mode, now, nextId, inflight>>

\* ---------------------------------------------------------- input domains
Origin == [x |-> 0, y |-> 0]
Positions == {[x |-> 100, y |-> 100], [x |-> 200, y |-> 100]}
DataTypes == {"INTEGER", "TEXT"}

\* the table that owns a stored column, the project that owns a stored table
TableOf(c) == IF Has(Store.columns, c) THEN Get(Store.columns, c).tableId ELSE NoId
ProjectOf(t) == IF Has(Store.schemaTables, t) THEN Get(Store.schemaTables, t).projectId ELSE NoId

\* requests whose target side is consistent and whose source side is free
TargetOwned(sourceTables, sourceColumns, targetColumns) ==
    {[projectId |-> ProjectOf(TableOf(tc)),
      sourceTableId |-> st, sourceColumnId |-> sc,
      targetTableId |-> TableOf(tc), targetColumnId |-> tc] :
        st \in sourceTables, sc \in sourceColumns, tc \in targetColumns}

\* ------------------------------------------- relationships and cascades
NextRel ==
    \/ CreateProject
    \/ CreateTable(ProjectIds, {Origin})
    \/ CreateColumn(TableIds, {"INTEGER"}, {TRUE}, {FALSE}, {0})
    \/ CreateRelationship(TargetOwned(TableIds, ColumnIds, ColumnIds), {TRUE})
    \/ UpdateRelationship(RelationshipIds,
                          {[sourceColumnId |-> c] : c \in ColumnIds \cup {NoId}})
    \/ DeleteRelationship(RelationshipIds)
    \/ DeleteColumn(ColumnIds)
    \/ DeleteTable(TableIds)
    \/ DeleteProject(ProjectIds)
    \/ SaveCanvasState(ProjectIds)

SpecRel == Init /\ [][NextRel]_vars

\* requests whose table ids are the owners of the named columns (or, for the
\* source side, an id that names nothing); the project is free
OwnerRequests(pids, cids, danglingTables) ==
    {[projectId |-> p,
      sourceTableId |-> st, sourceColumnId |-> sc,
      targetTableId |-> TableOf(tc), targetColumnId |-> tc] :
        p \in pids, sc \in cids, tc \in cids,
        st \in {TableOf(x) : x \in cids} \cup danglingTables}

\* --------------------------------------- createRelationship's validation
NextValidate ==
    \/ CreateProject
    \/ CreateTable(ProjectIds, {Origin})
    \/ CreateColumn(TableIds, DataTypes, {TRUE}, {FALSE}, {0})
    \/ CreateRelationship(
          {q \in OwnerRequests(ProjectIds, ColumnIds, {NoId}) :
              q.sourceTableId \in {TableOf(q.sourceColumnId), NoId}},
          BOOLEAN)
    \/ DeleteRelationship(RelationshipIds)

SpecValidate == Init /\ [][NextValidate]_vars

\* ------------------------- createRelationship's rejections, with the clock
\* (one project with one table, whose columns a relationship joins)
NextReject ==
    \/ Tick
    \/ (nextId.p = 0 /\ CreateProject)
    \/ (nextId.t = 0 /\ CreateTable(ProjectIds, {Origin}))
    \/ CreateColumn(TableIds, {"INTEGER"}, {TRUE}, {FALSE}, {0})
    \/ CreateRelationship(
          {q \in OwnerRequests(ProjectIds, ColumnIds \cup {NoId}, {}) :
              q.sourceTableId = TableOf(q.sourceColumnId)},
          BOOLEAN)
    \/ DeleteTable(TableIds)

SpecReject == Init /\ [][NextReject]_vars

\* ------------------------------------------------- primary keys (C2)
KeyUpdates ==
    {[isPrimaryKey |-> TRUE], [isPrimaryKey |-> TRUE, nullable |-> TRUE],
     [isPrimaryKey |-> TRUE, nullable |-> FALSE], [nullable |-> TRUE]}

NextKeys ==
    \/ (nextId.p = 0 /\ CreateProject)
    \/ CreateTable(ProjectIds, {Origin})
    \/ CreateColumn(TableIds, DataTypes, BOOLEAN, BOOLEAN, {0})
    \/ UpdateColumn(ColumnIds, KeyUpdates)
    \/ DeleteTable(TableIds)

SpecKeys == Init /\ [][NextKeys]_vars

\* -------------------------------------------- column order (C8, C9)
OrderIndexes == {0, 1}

\* the id lists a caller can pass: any ids ever handed out, repeated ones
\* and the ids of columns deleted with their table included
RECURSIVE Lists(_, _)
Lists(S, n) ==
    IF n = 0 THEN {<<>>}
    ELSE LET shorter == Lists(S, n - 1)
         IN  shorter \cup {Append(l, x) : l \in shorter, x \in S}

NextOrder ==
    \/ (nextId.p = 0 /\ CreateProject)
    \/ (nextId.t < MaxTables - 1 /\ CreateTable(ProjectIds, {Origin}))
    \/ CreateColumn(TableIds, {"INTEGER"}, {TRUE}, {FALSE}, OrderIndexes)
    \/ ReorderColumns(TableIds, Lists(ColumnIds, MaxIds))
    \/ DeleteTable(TableIds)

SpecOrder == Init /\ [][NextOrder]_vars

\* ------------------------------------------------- batch moves (C10)
RECURSIVE Batches(_, _)
Batches(S, n) ==
    IF n = 0 THEN {<<>>}
    ELSE LET shorter == Batches(S, n - 1)
         IN  shorter \cup {Append(l, x) : l \in shorter, x \in S}

\* entries name tables that were created; a deleted one is an unknown id
MoveEntries == {[id |-> id, position |-> p] : id \in TableIds, p \in Positions}

NextMoves ==
    \/ (nextId.p = 0 /\ CreateProject)
    \/ CreateTable(ProjectIds, {Origin})
    \/ DeleteTable(TableIds)
    \/ LoadProject(ProjectIds)
    \/ MoveTables(Batches(MoveEntries, MaxMoves))
    \/ StoreMoveTables(Batches(MoveEntries, MaxMoves))

SpecMoves == Init /\ [][NextMoves]_vars

\* ------------------------------------------------- every operation
\* (the specifications above are its restrictions to one family of calls)
Next ==
    \/ Tick
    \/ CreateProject
    \/ UpdateProject(ProjectIds)
    \/ DeleteProject(ProjectIds)
    \/ SaveCanvasState(ProjectIds)
    \/ CreateTable(ProjectIds, Positions)
    \/ UpdateTable(TableIds, {[position |-> p] : p \in Positions})
    \/ DeleteTable(TableIds)
    \/ MoveTables(Batches(MoveEntries, MaxMoves))
    \/ CreateColumn(TableIds, DataTypes, BOOLEAN, BOOLEAN, OrderIndexes)
    \/ UpdateColumn(ColumnIds, KeyUpdates)
    \/ DeleteColumn(ColumnIds)
    \/ ReorderColumns(TableIds, Lists(ColumnIds \cup {NoId}, MaxIds))
    \/ CreateRelationship(OwnerRequests(ProjectIds, ColumnIds \cup {NoId}, {NoId}),
                          BOOLEAN)
    \/ UpdateRelationship(RelationshipIds,
                          {[sourceColumnId |-> c] : c \in ColumnIds \cup {NoId}})
    \/ DeleteRelationship(RelationshipIds)
    \/ LoadProject(ProjectIds)
    \/ StoreMoveTables(Batches(MoveEntries, MaxMoves))

Spec == Init /\ [][Next]_vars

\* ------------------------------- two clients on one server (C25)
\* Each client is idle, has its table found, or has its PUT under way; req is
\* the call it is in, done the end of its last PUT.
\* a client starts updateTable: its GETs are answered
SessionFind(tids, updates) ==
    \E s \in Sessions, id \in tids, u \in updates :
        LET Set(m) ==
                /\ inflight' = [inflight EXCEPT !.sessions[s] =
                        IF m.out = "found"
                        THEN [@ EXCEPT !.pc = "found", !.cache = m.w.cache,
                                       !.req = [id |-> id, updates |-> u,
                                                schema |-> m.schema,
                                                entity |-> m.entity]]
                        ELSE [@ EXCEPT !.cache = m.w.cache]]
                /\ last' = [op |-> "session.find", arg |-> [session |-> s, id |-> id],
                            out |-> m.out, ret |-> NoId]
        IN  /\ inflight.sessions[s].pc = "idle"
            /\ Set(updateTable_find(World, inflight.sessions[s].cache, id))
            /\ UNCHANGED <<mode, now, nextId, idb, pg, cache, localStorage, mem>>

\* the client's PUT arrives: the handler runs statement by statement, next to
\* the handler of any other request
SessionPutBegin ==
    \E s \in Sessions :
        LET req == inflight.sessions[s].req
            Start(p) ==
                /\ pg' = PUT_upsertProject(pg, p.project.id, now)
                /\ inflight' = [inflight EXCEPT
                        !.sessions[s].pc = "upserted",
                        !.sessions[s].req =
                            [id |-> req.id, updates |-> req.updates,
                             schema |-> req.schema, payload |-> p,
                             projectId |-> p.project.id, t |-> now,
                             tables |-> p.tables, columns |-> p.columns,
                             relationships |-> p.relationships]]
                /\ last' = [op |-> "session.put", arg |-> [session |-> s, id |-> req.id],
                            out |-> "pending", ret |-> NoId]
        IN  /\ inflight.sessions[s].pc = "found"
            /\ Start(updateTable_put(pg, req, req.id, req.updates, now).payload)
            /\ UNCHANGED <<mode, now, nextId, idb, cache, localStorage, mem>>

SessionPutDelete ==
    \E s \in Sessions :
        /\ inflight.sessions[s].pc = "upserted"
        /\ pg' = PUT_deleteTables(pg, inflight.sessions[s].req.projectId)
        /\ inflight' = [inflight EXCEPT !.sessions[s].pc = "inserting"]
        /\ last' = [op |-> "session.put",
                    arg |-> [session |-> s, id |-> inflight.sessions[s].req.id],
                    out |-> "pending", ret |-> NoId]
        /\ UNCHANGED <<mode, now, nextId, idb, cache, localStorage, mem>>

\* the next INSERT; when it fails the handler answers 500 and updateTable throws
SessionPutInsert ==
    \E s \in Sessions :
        LET req == inflight.sessions[s].req
            Set(r) ==
                /\ pg' = r.db
                /\ inflight' = [inflight EXCEPT !.sessions[s] =
                        IF r.ok THEN [@ EXCEPT !.req = r.req]
                        ELSE [@ EXCEPT !.pc = "idle", !.req = NoFields,
                                       !.done = [out |-> "ServerError",
                                                 payload |-> req.payload]]]
                /\ last' = [op |-> IF r.ok THEN "session.put" ELSE "session.updateTable",
                            arg |-> [session |-> s, id |-> req.id],
                            out |-> IF r.ok THEN "pending" ELSE "ServerError",
                            ret |-> NoId]
        IN  /\ inflight.sessions[s].pc = "inserting"
            /\ req.tables \o req.columns \o req.relationships # <<>>
            /\ Set(PUT_insertNext(pg, req))
            /\ UNCHANGED <<mode, now, nextId, idb, cache, localStorage, mem>>

\* { ok: true }: updateTable resolves and the client indexes what it sent
SessionPutEnd ==
    \E s \in Sessions :
        LET req == inflight.sessions[s].req
        IN  /\ inflight.sessions[s].pc = "inserting"
            /\ req.tables \o req.columns \o req.relationships = <<>>
            /\ inflight' = [inflight EXCEPT !.sessions[s] =
                    [pc |-> "idle", cache |-> indexSchema(@.cache, req.payload),
                     req |-> NoFields,
                     done |-> [out |-> "ok", payload |-> req.payload]]]
            /\ last' = [op |-> "session.updateTable",
                        arg |-> [session |-> s, id |-> req.id],
                        out |-> "ok", ret |-> NoId]
            /\ UNCHANGED <<mode, now, nextId, idb, pg, cache, localStorage, mem>>

PutsUnderWay == {s \in Sessions : inflight.sessions[s].pc \in {"upserted", "inserting"}}

NextSessions ==
    \/ (nextId.p = 0 /\ CreateProject)
    \/ (PutsUnderWay = {} /\ CreateTable(ProjectIds, {Origin}))
    \/ SessionFind(TableIds, {[position |-> [x |-> 100, y |-> 100]]})
    \/ SessionPutBegin
    \/ SessionPutDelete
    \/ SessionPutInsert
    \/ SessionPutEnd

SpecSessions == InitWith({"backend"}) /\ [][NextSessions]_vars

\* ------------------------------- a PUT statement by statement (C26)
PutRunning == inflight.put.pc # "none"

\* updateTable of a client sends its PUT; the handler upserts the project
PutBegin(tids, updates) ==
    \E id \in tids, u \in updates :
        LET Start(p) ==
                /\ pg' = PUT_upsertProject(pg, p.project.id, now)
                /\ inflight' = [inflight EXCEPT !.put =
                        [pc |-> "upserted", projectId |-> p.project.id, t |-> now,
                         payload |-> p, replaced |-> GET_schema(pg, p.project.id).body,
                         tables |-> p.tables, columns |-> p.columns,
                         relationships |-> p.relationships]]
                /\ last' = [op |-> "PUT", arg |-> [id |-> p.project.id],
                            out |-> "pending", ret |-> NoId]
            With(m) ==
                /\ m.out = "found"
                /\ cache' = m.w.cache
                /\ Start(updateTable_put(pg, m, id, u, now).payload)
        IN  /\ ~PutRunning
            /\ With(findTableById(World, id))
            /\ UNCHANGED <<mode, now, nextId, idb, localStorage, mem>>

PutDelete ==
    /\ inflight.put.pc = "upserted"
    /\ pg' = PUT_deleteTables(pg, inflight.put.projectId)
    /\ inflight' = [inflight EXCEPT !.put.pc = "inserting"]
    /\ last' = [op |-> "PUT", arg |-> [id |-> inflight.put.projectId],
                out |-> "pending", ret |-> NoId]
    /\ UNCHANGED <<mode, now, nextId, idb, cache, localStorage, mem>>

PutInsert ==
    LET req == inflight.put
        Set(r) ==
            /\ pg' = r.db
            /\ inflight' = [inflight EXCEPT !.put = IF r.ok THEN r.req ELSE NoPut]
            /\ last' = [op |-> "PUT", arg |-> [id |-> req.projectId],
                        out |-> IF r.ok THEN "pending" ELSE "ServerError", ret |-> NoId]
    IN  /\ req.pc = "inserting"
        /\ req.tables \o req.columns \o req.relationships # <<>>
        /\ Set(PUT_insertNext(pg, req))
        /\ UNCHANGED <<mode, now, nextId, idb, cache, localStorage, mem>>

\* NextResponse.json({ ok: true }); the client indexes what it sent
PutEnd ==
    LET req == inflight.put
    IN  /\ req.pc = "inserting"
        /\ req.tables \o req.columns \o req.relationships = <<>>
        /\ inflight' = [inflight EXCEPT !.put = NoPut]
        /\ cache' = indexSchema(cache, req.payload)
        /\ last' = [op |-> "PUT", arg |-> [id |-> req.projectId],
                    out |-> "ok", ret |-> NoId]
        /\ UNCHANGED <<mode, now, nextId, idb, pg, localStorage, mem>>

\* another request: GET /api/projects/:id/schema
ServerGet(pids) ==
    \E projectId \in pids :
        LET Set(g) ==
                last' = [op |-> "GET", arg |-> [id |-> projectId],
                         out |-> IF g.status = 200 THEN "ok" ELSE "ProjectNotFound",
                         ret |-> NoId, body |-> g.body]
        IN  /\ Set(GET_schema(pg, projectId))
            /\ UNCHANGED <<mode, now, nextId, idb, pg, cache, localStorage, mem,
                           inflight>>

NextPut ==
    \/ (~PutRunning /\ nextId.p = 0 /\ CreateProject)
    \/ (~PutRunning /\ CreateTable(ProjectIds, {Origin}))
    \/ (~PutRunning /\ CreateColumn(TableIds, {"INTEGER"}, {FALSE}, {FALSE}, {0}))
    \/ PutBegin(TableIds, {[position |-> [x |-> 100, y |-> 100]]})
    \/ PutDelete
    \/ PutInsert
    \/ PutEnd
    \/ ServerGet(ProjectIds)

SpecPut == InitWith({"backend"}) /\ [][NextPut]_vars

\* ------------------------------- lookups by id in the remote store (C28)
\* getTable / getColumn / getRelationship: the finder's answer, handed on
Lookup(m, op, id) ==
    /\ cache' = m.w.cache
    /\ last' = [op |-> op, arg |-> [id |-> id], out |-> m.out, ret |-> NoId,
                entity |-> m.entity]
    /\ UNCHANGED <<mode, now, nextId, idb, pg, localStorage, mem, inflight>>

GetTable(tids) == \E id \in tids : Lookup(findTableById(World, id), "getTable", id)

GetColumn(cids) == \E id \in cids : Lookup(findColumnById(World, id), "getColumn", id)

GetRelationship(rids) ==
    \E id \in rids : Lookup(findRelationshipById(World, id), "getRelationship", id)

NextLookup ==
    \/ CreateProject
    \/ CreateTable(ProjectIds, {Origin})
    \/ CreateColumn(TableIds, {"INTEGER"}, {FALSE}, {FALSE}, {0})
    \/ CreateRelationship(TargetOwned(TableIds, ColumnIds, ColumnIds), {TRUE})
    \/ DeleteProject(ProjectIds)
    \/ DeleteTable(TableIds)
    \/ GetTable(TableIds)
    \/ GetColumn(ColumnIds)
    \/ GetRelationship(RelationshipIds)

SpecLookup == InitWith({"backend"}) /\ [][NextLookup]_vars

\* ------------------------------- a document PUT and read back (C29)
\* documents a client may PUT: tables under ids of their own, columns of those
\* tables or of tables stored already, with or without a data type
PutTableLists ==
    {[i \in 1..n |-> [id |-> TableBase + 50 + i, position |-> Origin]] :
        n \in 0..MaxDocTables}
PutColumnLists(tids) ==
    {<<>>} \cup
    {<<[id |-> ColumnBase + 50 + 1, tableId |-> tt, dataType |-> dt,
        nullable |-> TRUE, isPrimaryKey |-> FALSE, orderIndex |-> 0]>> :
        tt \in tids, dt \in {"INTEGER", Null}}
PutDocuments(stored) ==
    {[tables |-> ts, columns |-> cs, relationships |-> <<>>] :
        ts \in PutTableLists, cs \in PutColumnLists(stored \cup {TableBase + 50 + 1})}

\* PUT /api/projects/:id/schema with a document of the client's making
PutSchema(pids, documents) ==
    \E projectId \in pids, schema \in documents :
        LET Set(r) ==
                /\ pg' = r.db
                /\ last' = [op |-> "PUT schema",
                            arg |-> [id |-> projectId, schema |-> schema],
                            out |-> IF r.status = 200 THEN "ok" ELSE "ServerError",
                            ret |-> NoId]
        IN  /\ Set(PUT_schema(pg, projectId, schema, now))
            /\ UNCHANGED <<mode, now, nextId, idb, cache, localStorage, mem, inflight>>

\* one PUT per run, over what the other operations stored
NextReplace ==
    \/ (last.op # "PUT schema" /\ CreateProject)
    \/ (last.op # "PUT schema" /\ CreateTable(ProjectIds, {Origin}))
    \/ (last.op # "PUT schema" /\ nextId.c < MaxColumns - 1
            /\ CreateColumn(TableIds, {"INTEGER"}, {TRUE}, {FALSE}, {0}))
    \/ (last.op # "PUT schema" /\ PutSchema(ProjectIds, PutDocuments(TableIds)))

SpecReplace == InitWith({"backend"}) /\ [][NextReplace]_vars

\* ------------------------------- the writes of a batch of moves (C24)
\* moveTables, with the writes it sent to the backing store recorded
MoveTablesCounted(movesets) ==
    \E moves \in movesets :
        LET Set(r) ==
                /\ idb' = r.w.idb
                /\ pg' = r.w.pg
                /\ cache' = r.w.cache
                /\ localStorage' = r.w.ls
                /\ last' = [op |-> "moveTables", arg |-> [moves |-> moves],
                            out |-> r.out, ret |-> r.ret,
                            writes |-> moveTablesWrites(World, moves, now)]
        IN  /\ Set(moveTables(World, moves, now))
            /\ UNCHANGED <<mode, now, nextId, mem, inflight>>

NextWrites ==
    \/ CreateProject
    \/ CreateTable(ProjectIds, {Origin})
    \/ DeleteTable(TableIds)
    \/ MoveTablesCounted(Batches(MoveEntries, MaxMoves))

SpecWrites == Init /\ [][NextWrites]_vars

\* ------------------------------- deletions, of ids present and absent (C23)
NextAbsent ==
    \/ CreateProject
    \/ CreateTable(ProjectIds, {0})
    \/ CreateColumn(TableIds, {"INTEGER"}, {FALSE}, {FALSE}, {0})
    \/ CreateRelationship(OwnerRequests(ProjectIds, ColumnIds, {NoId}), {TRUE})
    \/ DeleteProject(ProjectIds)
    \/ DeleteTable(TableIds)
    \/ DeleteColumn(ColumnIds)
    \/ DeleteRelationship(RelationshipIds)

SpecAbsent == Init /\ [][NextAbsent]_vars

\* ------------------------------- the two realizations side by side (C11)
\* Every call goes to the Dexie realization (on idb) and to the REST one (on
\* pg, cache, localStorage) with the same arguments and the same fresh id.
Both(f, b, op, arg) ==
    /\ idb' = f.w.idb
    /\ pg' = b.w.pg
    /\ cache' = b.w.cache
    /\ localStorage' = b.w.ls
    /\ last' = [op |-> op, arg |-> arg, out |-> f.out, ret |-> f.ret,
                remote |-> [out |-> b.out, ret |-> b.ret]]

BothCreated(f, b, op, arg, kind) ==
    /\ Both(f, b, op, arg)
    /\ nextId' = IF f.ret # NoId \/ b.ret # NoId
                 THEN [nextId EXCEPT ![kind] = @ + 1] ELSE nextId

BothCreateProject ==
    /\ nextId.p < MaxProjects
    /\ LET id == ProjectBase + nextId.p + 1
       IN  BothCreated(frontend_createProject(World, id, now),
                       backend_createProject(World, id, now),
                       "createProject", NoFields, "p")
    /\ UNCHANGED <<mode, now, mem, inflight>>

BothUpdateProject(pids) ==
    \E id \in pids :
        /\ Both(frontend_updateProject(World, id, NoFields, now),
                backend_updateProject(World, id, NoFields, now),
                "updateProject", [id |-> id])
        /\ UNCHANGED <<mode, now, nextId, mem, inflight>>

BothCreateTable(pids) ==
    \E projectId \in pids :
        /\ nextId.t < MaxTables
        /\ LET data == [projectId |-> projectId, position |-> [x |-> 0, y |-> 0]]
               id == TableBase + nextId.t + 1
           IN  BothCreated(frontend_createTable(World, data, id, now),
                           backend_createTable(World, data, id, now),
                           "createTable", data, "t")
        /\ UNCHANGED <<mode, now, mem, inflight>>

BothDeleteTable(tids) ==
    \E id \in tids :
        /\ Both(frontend_deleteTable(World, id, now), backend_deleteTable(World, id, now),
                "deleteTable", [id |-> id])
        /\ UNCHANGED <<mode, now, nextId, mem, inflight>>

BothCreateColumn(tids) ==
    \E tableId \in tids :
        /\ nextId.c < MaxColumns
        /\ LET data == [tableId |-> tableId, dataType |-> "INTEGER",
                        nullable |-> TRUE, isPrimaryKey |-> FALSE, orderIndex |-> 0]
               id == ColumnBase + nextId.c + 1
           IN  BothCreated(frontend_createColumn(World, data, id, now),
                           backend_createColumn(World, data, id, now),
                           "createColumn", data, "c")
        /\ UNCHANGED <<mode, now, mem, inflight>>

BothDeleteColumn(cids) ==
    \E id \in cids :
        /\ Both(frontend_deleteColumn(World, id, now), backend_deleteColumn(World, id, now),
                "deleteColumn", [id |-> id])
        /\ UNCHANGED <<mode, now, nextId, mem, inflight>>

BothCreateRelationship(requests) ==
    \E data \in requests :
        /\ nextId.r < MaxRelationships
        /\ LET id == RelationshipBase + nextId.r + 1
           IN  BothCreated(frontend_createRelationship(World, data, TRUE, id, now),
                           backend_createRelationship(World, data, TRUE, id, now),
                           "createRelationship", [data |-> data], "r")
        /\ UNCHANGED <<mode, now, mem, inflight>>

BothDeleteProject(pids) ==
    \E id \in pids :
        /\ Both(frontend_deleteProject(World, id), backend_deleteProject(World, id),
                "deleteProject", [id |-> id])
        /\ UNCHANGED <<mode, now, nextId, mem, inflight>>

\* projects deleted once and again, in both realizations (C22)
NextTwice ==
    \/ BothCreateProject
    \/ BothCreateTable(ProjectIds)
    \/ BothCreateColumn(TableIds)
    \/ BothDeleteProject(ProjectIds)

SpecTwice == InitWith({"frontend"}) /\ [][NextTwice]_vars

NextBoth ==
    \/ BothCreateProject
    \/ BothUpdateProject(ProjectIds)
    \/ BothCreateTable(ProjectIds)
    \/ BothDeleteTable(TableIds)
    \/ BothCreateColumn(TableIds)
    \/ BothDeleteColumn(ColumnIds)
    \/ BothCreateRelationship(TargetOwned(TableIds, ColumnIds, ColumnIds))

SpecBoth == InitWith({"frontend"}) /\ [][NextBoth]_vars

\* ------------------------------------------- export and import (C12..C14)
\* the outcome r of an import: stores, the ids it used up, the call record
Imported(r, op, arg) ==
    /\ Do([w |-> r.w, out |-> r.out, ret |-> NoId], op, arg)
    /\ nextId' = [nextId EXCEPT !.t = r.ids.t, !.c = r.ids.c, !.r = r.ids.r]

WithinBounds ==
    /\ nextId.t <= MaxTables
    /\ nextId.c <= MaxColumns
    /\ nextId.r <= MaxRelationships

\* importFromJSON(JSON.stringify(schema), projectId)
ImportFromJSON(schemas, pids) ==
    \E schema \in schemas, projectId \in pids :
        /\ WithinBounds
        /\ Imported(importFromJSON(World, schema, projectId,
                                   [t |-> nextId.t, c |-> nextId.c, r |-> nextId.r], now),
                    "importFromJSON", [schema |-> schema, projectId |-> projectId])
        /\ UNCHANGED <<mode, now, mem, inflight>>

\* importFromJSON(JSON.stringify(await exportToJSON(source)), destination)
\* for a destination project that owns nothing yet
ExportThenImport(pids) ==
    \E source \in pids, destination \in pids :
        LET arg == [source |-> source, destination |-> destination]
            With(e) ==
                IF e.out # "ok"
                THEN /\ last' = [op |-> "exportThenImport", arg |-> arg,
                                 out |-> e.out, ret |-> NoId]
                     /\ UNCHANGED <<nextId, idb, pg, cache, localStorage>>
                ELSE Imported(importFromJSON(World, e.schema, destination,
                                  [t |-> nextId.t, c |-> nextId.c, r |-> nextId.r], now),
                              "exportThenImport", arg)
        IN  /\ WithinBounds
            /\ source # destination
            /\ Has(Store.projects, source)
            /\ Has(Store.projects, destination)
            /\ \A e \in Store.schemaTables : e.projectId # destination
            /\ \A e \in Store.relationships : e.projectId # destination
            /\ With(exportToJSON(World, source))
            /\ UNCHANGED <<mode, now, mem, inflight>>

\* documents that pass validateSchemaExport: lists of tables, columns and
\* relationships with ids of their own (1, 2, ...); a column may name a table
\* the document does not hold, a relationship a table or column it does not
\* hold, and a table may come without a name
DocTableLists ==
    {[i \in 1..n |-> [id |-> i]] : n \in 0..MaxDocTables}
        \cup {<<[id |-> 1, name |-> Null]>>}
\* column k belongs to table k (the last table when the tables run out); in
\* the second family the last column names a table no document holds
DocColumnLists ==
    LET Aligned(n) == [k \in 1..n |-> IF k <= MaxDocTables THEN k ELSE MaxDocTables]
    IN  {Aligned(n) : n \in 0..MaxDocColumns}
            \cup {[Aligned(n) EXCEPT ![n] = MaxDocTables + 1] : n \in 1..MaxDocColumns}
DocColumns(tableIds) ==
    [k \in 1..Len(tableIds) |->
        [id |-> k, tableId |-> tableIds[k], dataType |-> "INTEGER",
         nullable |-> TRUE, isPrimaryKey |-> FALSE, orderIndex |-> k - 1]]
DocRelationshipLists ==
    {<<>>} \cup
    {<<[id |-> 1, sourceTableId |-> 1, sourceColumnId |-> 1,
        targetTableId |-> tt, targetColumnId |-> tt]>> :
        tt \in {1, MaxDocTables}}
Documents ==
    {[tables |-> ts, columns |-> DocColumns(cs), relationships |-> rs] :
        ts \in DocTableLists, cs \in DocColumnLists, rs \in DocRelationshipLists}

\* one import per run, into a project prepared by the other operations
NextImport ==
    \/ (nextId.p = 0 /\ CreateProject)
    \/ (last.op # "importFromJSON" /\ nextId.t < MaxTables
            /\ CreateTable(ProjectIds, {Origin}))
    \/ (last.op # "importFromJSON" /\ nextId.c < MaxColumns - 1
            /\ CreateColumn(TableIds, {"INTEGER"}, {TRUE}, {FALSE}, {0}))
    \/ (last.op # "importFromJSON"
            /\ CreateRelationship(TargetOwned(TableIds, ColumnIds, ColumnIds), {FALSE}))
    \/ (last.op # "importFromJSON" /\ ImportFromJSON(Documents, ProjectIds))

SpecImport == Init /\ [][NextImport]_vars

\* ------------------------------- the two import variants side by side (C27)
Larger(a, b) == IF a >= b THEN a ELSE b

\* one document imported into the same project of both stores
BothImport(schemas, pids) ==
    \E schema \in schemas, projectId \in pids :
        LET ids == [t |-> nextId.t, c |-> nextId.c, r |-> nextId.r]
            Set(f, b) ==
                /\ Both([w |-> f.w, out |-> f.out, ret |-> NoId],
                        [w |-> b.w, out |-> b.out, ret |-> NoId],
                        "importFromJSON", [schema |-> schema, projectId |-> projectId])
                /\ nextId' = [nextId EXCEPT !.t = Larger(f.ids.t, b.ids.t),
                                            !.c = Larger(f.ids.c, b.ids.c),
                                            !.r = Larger(f.ids.r, b.ids.r)]
        IN  /\ WithinBounds
            /\ Set(importToFrontend(World, schema, projectId, ids, now),
                   importToBackend(World, schema, projectId, ids, now))
            /\ UNCHANGED <<mode, now, mem, inflight>>

NextBothImport ==
    \/ (nextId.p = 0 /\ BothCreateProject)
    \/ (last.op # "importFromJSON" /\ BothCreateTable(ProjectIds))
    \/ (last.op # "importFromJSON" /\ nextId.c < MaxColumns - 1
            /\ BothCreateColumn(TableIds))
    \/ (last.op # "importFromJSON" /\ BothImport(Documents, ProjectIds))

SpecBothImport == InitWith({"frontend"}) /\ [][NextBothImport]_vars

NextTrip ==
    \/ CreateProject
    \/ CreateTable(ProjectIds, {Origin})
    \/ CreateColumn(TableIds, DataTypes, {TRUE}, {FALSE}, {0})
    \/ CreateRelationship(TargetOwned(TableIds, ColumnIds, ColumnIds), {FALSE})
    \/ ExportThenImport(ProjectIds)

SpecTrip == Init /\ [][NextTrip]_vars

\* ------------------------------------------- projects come and go (C15)
NextProject ==
    \/ Tick
    \/ CreateProject
    \/ CreateTable(ProjectIds, {Origin})
    \/ UpdateProject(ProjectIds)
    \/ DeleteProject(ProjectIds)

SpecProject == Init /\ [][NextProject]_vars

\* ------------------------------------------- generated SQL (C20)
Dialects == {SQLDialect.POSTGRESQL, SQLDialect.MYSQL, SQLDialect.SQLITE}

\* exportToSQL(projectId, dialect): nothing is stored, the script is recorded
ExportToSQL(pids, dialects) ==
    \E projectId \in pids, dialect \in dialects :
        LET With(r) ==
                last' = [op |-> "exportToSQL",
                         arg |-> [projectId |-> projectId, dialect |-> dialect,
                                  schema |-> r.schema],
                         out |-> r.out, ret |-> NoId, sql |-> r.sql]
        IN  /\ With(exportToSQL(World, projectId, dialect))
            /\ UNCHANGED <<mode, now, nextId, idb, pg, cache, localStorage, mem, inflight>>

\* generateSQL({dialect, tables, columns, relationships}) on a document
GenerateSQL(schemas, dialects) ==
    \E schema \in schemas, dialect \in dialects :
        /\ last' = [op |-> "generateSQL",
                    arg |-> [dialect |-> dialect, schema |-> schema],
                    out |-> "ok", ret |-> NoId,
                    sql |-> generateSQL(dialect, schema.tables, schema.columns,
                                        schema.relationships)]
        /\ UNCHANGED <<mode, now, nextId, idb, pg, cache, localStorage, mem, inflight>>

\* scripts for tables with none, one or several primary-key columns (C30)
NextKeysSQL ==
    \/ (nextId.p = 0 /\ CreateProject)
    \/ CreateTable(ProjectIds, {Origin})
    \/ CreateColumn(TableIds, {"INTEGER"}, {FALSE}, BOOLEAN, {0, 1})
    \/ ExportToSQL(ProjectIds, Dialects)

SpecKeysSQL == Init /\ [][NextKeysSQL]_vars

NextSQL ==
    \/ CreateProject
    \/ CreateTable(ProjectIds, {Origin})
    \/ CreateColumn(TableIds, {"INTEGER"}, {TRUE}, {FALSE}, {0})
    \/ CreateRelationship(TargetOwned(TableIds, ColumnIds, ColumnIds), {FALSE})
    \/ ExportToSQL(ProjectIds, Dialects)
    \/ (nextId.p = 0 /\ GenerateSQL(Documents, Dialects))

SpecSQL == Init /\ [][NextSQL]_vars

\* ------------------------------------------- loads in flight (C39)
\* loadProject in its steps: the call is made (LoadBegin), its reads are
\* answered (LoadRead), and the continuation after the last await sets the
\* maps (LoadSet).  inflight.loads lists the calls made, each with the
\* project asked for, how far it is and what it read.  `last` names the
\* most recent request: a loadProject call or a clearProject.
LoadBegin(pids) ==
    \E projectId \in pids :
        /\ Len(inflight.loads) < MaxLoads
        /\ inflight' = [inflight EXCEPT !.loads =
               Append(@, [id |-> projectId, pc |-> "sent", read |-> NoFields])]
        /\ last' = [op |-> "store.loadProject", arg |-> [id |-> projectId],
                    out |-> "pending", ret |-> NoId]
        /\ UNCHANGED <<mode, now, nextId, idb, pg, cache, localStorage, mem>>

LoadRead ==
    \E k \in 1..Len(inflight.loads) :
        /\ inflight.loads[k].pc = "sent"
        /\ inflight' = [inflight EXCEPT !.loads[k] =
               [@ EXCEPT !.pc = "read",
                         !.read = store_loadProject(World, mem, inflight.loads[k].id)]]
        /\ UNCHANGED <<mode, now, nextId, idb, pg, cache, localStorage, mem, last>>

\* set({ currentProjectId, tables, columns, relationships }) of the call
\* whose reads came back; a failed read throws and sets nothing
LoadSet ==
    \E k \in 1..Len(inflight.loads) :
        /\ inflight.loads[k].pc = "read"
        /\ inflight' = [inflight EXCEPT !.loads[k].pc = "done"]
        /\ mem' = IF inflight.loads[k].read.out = "ok"
                  THEN inflight.loads[k].read.mem ELSE mem
        /\ UNCHANGED <<mode, now, nextId, idb, pg, cache, localStorage, last>>

ClearProject ==
    /\ inflight.loads # <<>>
    /\ mem' = EmptyMem
    /\ last' = [op |-> "store.clearProject", arg |-> NoFields, out |-> "ok",
                ret |-> NoId]
    /\ UNCHANGED <<mode, now, nextId, idb, pg, cache, localStorage, inflight>>

\* two projects with their tables, then loads and clears in any order
NextLoads ==
    \/ (inflight.loads = <<>> /\ CreateProject)
    \/ (inflight.loads = <<>> /\ CreateTable(ProjectIds, {Origin}))
    \/ LoadBegin(ProjectIds)
    \/ LoadRead
    \/ LoadSet
    \/ ClearProject

SpecLoads == Init /\ [][NextLoads]_vars

\* ------------------------------------------- import and the mode flag (C38)
\* importFromJSON call by call.  The mode is read once, by importFromJSON;
\* importToBackend then talks to the server itself, importToFrontend goes
\* through dbOps, whose every call resolves the mode again.  inflight.import
\* is the call under way: where it stands (pc, i), what it mapped so far, the
\* mode it read and the stores as they were when it started.
Importing == inflight.import.pc # "none"

\* setPersistenceMode(the other mode) while an import is under way
SwitchMode ==
    /\ Importing
    /\ ~inflight.import.switched
    /\ mode' = IF mode = "backend" THEN "frontend" ELSE "backend"
    /\ inflight' = [inflight EXCEPT !.import.switched = TRUE]
    /\ UNCHANGED <<now, nextId, idb, pg, cache, localStorage, mem, last>>

\* the next loop of importToFrontend that still has an entry to go through
Phase(imp) ==
    LET Columns(c) ==
            IF c.pc = "columns" /\ c.i > Len(c.schema.columns)
            THEN [c EXCEPT !.pc = "relationships", !.i = 1]
            ELSE c
    IN  Columns(IF imp.pc = "tables" /\ imp.i > Len(imp.schema.tables)
                THEN [imp EXCEPT !.pc = "columns", !.i = 1]
                ELSE imp)

ImportBegin(schemas, pids) ==
    \E schema \in schemas, projectId \in pids :
        LET imp == [pc |-> "tables", i |-> 1, schema |-> schema,
                    projectId |-> projectId, started |-> mode, switched |-> FALSE,
                    before |-> [idb |-> idb, pg |-> pg],
                    grid |-> importGrid({}, 0),
                    tableIdMap |-> EmptyMap, columnIdMap |-> EmptyMap]
            With(existing) ==
                IF existing.out # "ok"
                THEN /\ last' = [op |-> "importFromJSON", arg |-> imp,
                                 out |-> existing.out, ret |-> NoId]
                     /\ UNCHANGED inflight
                ELSE /\ inflight' = [inflight EXCEPT !.import =
                            [imp EXCEPT !.grid = importGrid(Range(existing.rows),
                                                            Len(schema.tables))]]
                     /\ UNCHANGED last
        IN  /\ ~Importing
            /\ WithinBounds
            /\ IF mode = "backend"
               THEN /\ inflight' = [inflight EXCEPT !.import = [imp EXCEPT !.pc = "backend"]]
                    /\ UNCHANGED last
               ELSE With(getTablesByProject(World, projectId))
            /\ UNCHANGED <<mode, now, nextId, idb, pg, cache, localStorage, mem>>

\* the stores and the id counters after a step; a step that threw ends the call
ImportStepped(imp, st) ==
    /\ idb' = st.w.idb
    /\ pg' = st.w.pg
    /\ cache' = st.w.cache
    /\ localStorage' = st.w.ls
    /\ nextId' = [nextId EXCEPT !.t = st.ids.t, !.c = st.ids.c, !.r = st.ids.r]
    /\ IF st.out # "ok"
       THEN /\ inflight' = [inflight EXCEPT !.import = NoImport]
            /\ last' = [op |-> "importFromJSON", arg |-> imp, out |-> st.out,
                        ret |-> NoId]
       ELSE /\ inflight' = [inflight EXCEPT !.import =
                   [imp EXCEPT !.i = @ + 1, !.tableIdMap = st.tableIdMap,
                               !.columnIdMap = st.columnIdMap]]
            /\ UNCHANGED last

\* one dbOps call of importToFrontend (one turn of one of its loops), or the
\* requests of importToBackend
ImportStep ==
    LET imp == Phase(inflight.import)
        st == [w |-> World, ids |-> [t |-> nextId.t, c |-> nextId.c, r |-> nextId.r],
               tableIdMap |-> imp.tableIdMap, columnIdMap |-> imp.columnIdMap,
               out |-> "ok"]
    IN  /\ Importing
        /\ \/ /\ imp.pc = "backend"
              /\ ImportStepped([imp EXCEPT !.pc = "relationships",
                                           !.i = Len(imp.schema.relationships)],
                               importToBackend(World, imp.schema, imp.projectId,
                                               st.ids, now))
           \/ /\ imp.pc = "tables"
              /\ ImportStepped(imp, frontendImportTables(
                                   st, SubSeq(imp.schema.tables, 1, imp.i), imp.i,
                                   imp.projectId, imp.grid, now))
           \/ /\ imp.pc = "columns"
              /\ ImportStepped(imp, frontendImportColumns(
                                   st, SubSeq(imp.schema.columns, 1, imp.i), imp.i, now))
           \/ /\ imp.pc = "relationships"
              /\ imp.i <= Len(imp.schema.relationships)
              /\ ImportStepped(imp, frontendImportRelationships(
                                   st, SubSeq(imp.schema.relationships, 1, imp.i), imp.i,
                                   imp.projectId, now))
        /\ UNCHANGED <<mode, now, mem>>

\* the promise of importFromJSON resolves
ImportEnd ==
    LET imp == Phase(inflight.import)
    IN  /\ Importing
        /\ imp.pc = "relationships"
        /\ imp.i > Len(imp.schema.relationships)
        /\ inflight' = [inflight EXCEPT !.import = NoImport]
        /\ last' = [op |-> "importFromJSON", arg |-> imp, out |-> "ok", ret |-> NoId]
        /\ UNCHANGED <<mode, now, nextId, idb, pg, cache, localStorage, mem>>

\* documents whose tables all have a name
NamedDocuments ==
    {d \in Documents : \A i \in 1..Len(d.tables) : "name" \notin DOMAIN d.tables[i]}

\* one import per run into a new project, the mode switched at most once
\* while it runs
NextSwitch ==
    \/ (nextId.p = 0 /\ ~Importing /\ CreateProject)
    \/ (last.op # "importFromJSON" /\ ImportBegin(NamedDocuments, ProjectIds))
    \/ ImportStep
    \/ ImportEnd
    \/ SwitchMode

SpecSwitch == Init /\ [][NextSwitch]_vars

\* ------------------------------------------- reorderColumns across tables (C36)
\* lists that may name a column of another table, or no column at all
NextFrame ==
    \/ (nextId.p = 0 /\ CreateProject)
    \/ CreateTable(ProjectIds, {Origin})
    \/ CreateColumn(TableIds, {"INTEGER"}, {TRUE}, {FALSE}, {0})
    \/ ReorderColumns(TableIds, Lists(ColumnIds \cup {NoId}, MaxIds))

SpecFrame == Init /\ [][NextFrame]_vars

\* ------------------------------------------- schema store actions (C35)
\* an action of useSchemaStore: the stores and the maps change together
StoreActed(r, op, arg) ==
    /\ Do([w |-> r.w, out |-> r.out, ret |-> r.ret], op, arg)
    /\ mem' = r.mem

Loaded == mem.currentProjectId # NoId

StoreAddTable(positions) ==
    \E position \in positions :
        LET data == [projectId |-> mem.currentProjectId, position |-> position]
            Within(r) ==
                /\ StoreActed(r, "store.addTable", data)
                /\ nextId' = IF r.ret # NoId THEN [nextId EXCEPT !.t = @ + 1] ELSE nextId
        IN  /\ Loaded
            /\ nextId.t < MaxTables
            /\ Within(store_addTable(World, mem, data, TableBase + nextId.t + 1, now))
            /\ UNCHANGED <<mode, now, inflight>>

StoreUpdateTable(updates) ==
    \E id \in Ids(mem.tables), u \in updates :
        /\ Loaded
        /\ StoreActed(store_updateTable(World, mem, id, u, now), "store.updateTable",
                      [id |-> id, updates |-> u])
        /\ UNCHANGED <<mode, now, nextId, inflight>>

StoreDeleteTable ==
    \E id \in Ids(mem.tables) :
        /\ Loaded
        /\ StoreActed(store_deleteTable(World, mem, id, now), "store.deleteTable",
                      [id |-> id])
        /\ UNCHANGED <<mode, now, nextId, inflight>>

StoreMoveTable(positions) ==
    \E id \in Ids(mem.tables), position \in positions :
        LET moves == <<[id |-> id, position |-> position]>>
            Set(r) == StoreActed([w |-> r.w, mem |-> r.mem, out |-> r.out, ret |-> NoId],
                                 "store.moveTables", [moves |-> moves])
        IN  /\ Loaded
            /\ Set(store_moveTables(World, mem, moves, now))
            /\ UNCHANGED <<mode, now, nextId, inflight>>

StoreDuplicateTable ==
    \E tableId \in Ids(mem.tables) :
        LET n == Cardinality({c \in Store.columns : c.tableId = tableId})
            Within(r) ==
                /\ StoreActed(r, "store.duplicateTable", [tableId |-> tableId])
                /\ nextId' = IF r.out \in {"TableNotFound", "ProjectNotFound"}
                              THEN nextId
                              ELSE [nextId EXCEPT !.t = @ + 1, !.c = @ + n]
        IN  /\ Loaded
            /\ nextId.t < MaxTables
            /\ nextId.c + n <= MaxColumns
            /\ Within(store_duplicateTable(World, mem, tableId, TableBase + nextId.t + 1,
                                           nextId.c, now))
            /\ UNCHANGED <<mode, now, inflight>>

StoreAddColumn(orderIndexes) ==
    \E tableId \in Ids(mem.tables), orderIndex \in orderIndexes :
        LET data == [tableId |-> tableId, dataType |-> "INTEGER", nullable |-> TRUE,
                     isPrimaryKey |-> FALSE, orderIndex |-> orderIndex]
            Within(r) ==
                /\ StoreActed(r, "store.addColumn", data)
                /\ nextId' = IF r.ret # NoId THEN [nextId EXCEPT !.c = @ + 1] ELSE nextId
        IN  /\ Loaded
            /\ nextId.c < MaxColumns
            /\ Within(store_addColumn(World, mem, data, ColumnBase + nextId.c + 1, now))
            /\ UNCHANGED <<mode, now, inflight>>

StoreUpdateColumn(updates) ==
    \E id \in Ids(mem.columns), u \in updates :
        /\ Loaded
        /\ StoreActed(store_updateColumn(World, mem, id, u, now), "store.updateColumn",
                      [id |-> id, updates |-> u])
        /\ UNCHANGED <<mode, now, nextId, inflight>>

StoreDeleteColumn ==
    \E id \in Ids(mem.columns) :
        /\ Loaded
        /\ StoreActed(store_deleteColumn(World, mem, id, now), "store.deleteColumn",
                      [id |-> id])
        /\ UNCHANGED <<mode, now, nextId, inflight>>

\* the ids given are ids of columns of the loaded project
StoreReorderColumns ==
    \E tableId \in Ids(mem.tables), columnIds \in Lists(Ids(mem.columns), MaxIds) :
        /\ Loaded
        /\ StoreActed(store_reorderColumns(World, mem, tableId, columnIds, now),
                      "store.reorderColumns",
                      [tableId |-> tableId, columnIds |-> columnIds])
        /\ UNCHANGED <<mode, now, nextId, inflight>>

\* a relationship between two columns of the loaded project, each named
\* together with its own table
StoreAddRelationship ==
    \E sc \in mem.columns, tc \in mem.columns :
        LET data == [projectId |-> mem.currentProjectId,
                     sourceTableId |-> sc.tableId, sourceColumnId |-> sc.id,
                     targetTableId |-> tc.tableId, targetColumnId |-> tc.id]
            Within(r) ==
                /\ StoreActed(r, "store.addRelationship", data)
                /\ nextId' = IF r.ret # NoId THEN [nextId EXCEPT !.r = @ + 1] ELSE nextId
        IN  /\ Loaded
            /\ nextId.r < MaxRelationships
            /\ Within(store_addRelationship(World, mem, data, FALSE,
                                            RelationshipBase + nextId.r + 1, now))
            /\ UNCHANGED <<mode, now, inflight>>

StoreUpdateRelationship ==
    \E id \in Ids(mem.relationships), sc \in mem.columns :
        LET u == [sourceTableId |-> sc.tableId, sourceColumnId |-> sc.id]
        IN  /\ Loaded
            /\ StoreActed(store_updateRelationship(World, mem, id, u, now),
                          "store.updateRelationship", [id |-> id, updates |-> u])
            /\ UNCHANGED <<mode, now, nextId, inflight>>

StoreDeleteRelationship ==
    \E id \in Ids(mem.relationships) :
        /\ Loaded
        /\ StoreActed(store_deleteRelationship(World, mem, id, now),
                      "store.deleteRelationship", [id |-> id])
        /\ UNCHANGED <<mode, now, nextId, inflight>>

\* one project, loaded, and worked on through the schema store only
NextStore ==
    \/ (nextId.p = 0 /\ CreateProject)
    \/ (~Loaded /\ LoadProject(ProjectIds))
    \/ StoreAddTable({Origin})
    \/ StoreUpdateTable({[position |-> [x |-> 100, y |-> 100]]})
    \/ StoreDeleteTable
    \/ StoreMoveTable({[x |-> 100, y |-> 100]})
    \/ StoreDuplicateTable
    \/ StoreAddColumn({0})
    \/ StoreUpdateColumn({[nullable |-> FALSE]})
    \/ StoreDeleteColumn
    \/ StoreReorderColumns
    \/ StoreAddRelationship
    \/ StoreUpdateRelationship
    \/ StoreDeleteRelationship

SpecStore == Init /\ [][NextStore]_vars

\* ------------------------------------------- import layout (C32)
\* documents of 0..MaxImported tables and nothing else
LayoutDocuments ==
    {[tables |-> [i \in 1..n |-> [id |-> i]], columns |-> <<>>,
      relationships |-> <<>>] : n \in 0..MaxImported}

\* where the tables of the destination stand before the import
LayoutPositions ==
    {[x |-> 100, y |-> 100], [x |-> 200, y |-> 400], [x |-> -50, y |-> 0]}

\* one import per run, into a project holding up to MaxTables tables
NextLayout ==
    \/ (nextId.p = 0 /\ CreateProject)
    \/ (last.op # "importFromJSON" /\ nextId.t < MaxTables
            /\ CreateTable(ProjectIds, LayoutPositions))
    \/ (last.op # "importFromJSON" /\ ImportFromJSON(LayoutDocuments, ProjectIds))

SpecLayout == Init /\ [][NextLayout]_vars

\* ------------------------------------------- column types (C31)
\* the values a numeric option can take: absent, or 0..MaxDigits
Optional(field) == {NoFields} \cup {[f \in {field} |-> n] : n \in 0..MaxDigits}

TypedColumns ==
    {[dataType |-> d, isAutoIncrement |-> a] @@ l @@ p @@ s :
        d \in {"INTEGER", "DECIMAL", "NUMERIC", "SERIAL", "VARCHAR"},
        a \in BOOLEAN, l \in Optional("length"),
        p \in Optional("precision"), s \in Optional("scale")}

\* mapDataType(column) of the postgres or the mysql generator
MapDataType(columns, dialects) ==
    \E column \in columns, dialect \in dialects :
        /\ last' = [op |-> "mapDataType",
                    arg |-> [dialect |-> dialect, column |-> column],
                    out |-> "ok", ret |-> NoId,
                    type |-> mapDataType(dialect, column)]
        /\ UNCHANGED <<mode, now, nextId, idb, pg, cache, localStorage, mem, inflight>>

NextTypes ==
    MapDataType(TypedColumns, {SQLDialect.POSTGRESQL, SQLDialect.MYSQL})

SpecTypes == Init /\ [][NextTypes]_vars

\* ------------------------------------------- queries (C19)
\* a query: its outcome and its rows are recorded, the ids are untouched
Queried(r, op, id) ==
    /\ idb' = r.w.idb
    /\ pg' = r.w.pg
    /\ cache' = r.w.cache
    /\ localStorage' = r.w.ls
    /\ last' = [op |-> op, arg |-> [id |-> id], out |-> r.out, ret |-> NoId,
                rows |-> r.rows]
    /\ UNCHANGED <<mode, now, nextId, mem, inflight>>

GetTablesByProject(pids) ==
    \E id \in pids : Queried(getTablesByProject(World, id), "getTablesByProject", id)
GetColumnsByTable(tids) ==
    \E id \in tids : Queried(queryColumnsByTable(World, id), "getColumnsByTable", id)
GetRelationshipsByProject(pids) ==
    \E id \in pids :
        Queried(getRelationshipsByProject(World, id), "getRelationshipsByProject", id)
GetRelationshipsByTable(tids) ==
    \E id \in tids :
        Queried(getRelationshipsByTable(World, id), "getRelationshipsByTable", id)

NextQuery ==
    \/ (nextId.p = 0 /\ CreateProject)
    \/ CreateTable(ProjectIds, {Origin})
    \/ CreateColumn(TableIds, {"INTEGER"}, {TRUE}, {FALSE}, {0})
    \/ CreateRelationship(TargetOwned(TableIds, ColumnIds, ColumnIds), {FALSE})
    \/ DeleteProject(ProjectIds)
    \/ GetTablesByProject(ProjectIds)
    \/ GetColumnsByTable(TableIds)
    \/ GetRelationshipsByProject(ProjectIds)
    \/ GetRelationshipsByTable(TableIds)

SpecQuery == Init /\ [][NextQuery]_vars

\* ------------------------------------------- copies of tables (C18)
\* the ids of the copy and of its columns are used up unless the source table
\* was not found
DuplicateTable(tids) ==
    \E tableId \in tids :
        LET n == Cardinality({c \in Store.columns : c.tableId = tableId})
            Within(r) ==
                /\ Do(r, "duplicateTable", [tableId |-> tableId])
                /\ nextId' = IF r.out \in {"TableNotFound", "ProjectNotFound"}
                              THEN nextId
                              ELSE [nextId EXCEPT !.t = @ + 1, !.c = @ + n]
        IN  /\ nextId.t <= MaxTables
            /\ nextId.c <= MaxColumns
            /\ Within(duplicateTable(World, tableId, TableBase + nextId.t + 1,
                                     nextId.c, now))
            /\ UNCHANGED <<mode, now, mem, inflight>>

NextCopy ==
    \/ CreateProject
    \/ CreateTable(ProjectIds, {Origin})
    \/ CreateColumn(TableIds, {"INTEGER"}, {TRUE}, {FALSE}, {0, 1})
    \/ CreateRelationship(TargetOwned(TableIds, ColumnIds, ColumnIds), {FALSE})
    \/ DuplicateTable(TableIds)

SpecCopy == Init /\ [][NextCopy]_vars

\* ------------------------------------------- modification stamps (C17)
NextStamps ==
    \/ Tick
    \/ (nextId.p = 0 /\ CreateProject)
    \/ (nextId.t < MaxTables - 1 /\ CreateTable(ProjectIds, {Origin}))
    \/ (nextId.c < MaxColumns - 1
            /\ CreateColumn(TableIds, {"INTEGER"}, {TRUE}, {FALSE}, {0}))
    \/ UpdateProject(ProjectIds)
    \/ UpdateTable(TableIds, {NoFields, [position |-> [x |-> 100, y |-> 100]]})
    \/ UpdateColumn(ColumnIds, {[nullable |-> FALSE]})
    \/ DeleteColumn(ColumnIds)
    \/ DeleteTable(TableIds)

SpecStamps == Init /\ [][NextStamps]_vars

\* ================================================================ properties
\* a relationship keeps its identity and its four references
SameRelationship(a, b) ==
    /\ a.id = b.id
    /\ a.projectId = b.projectId
    /\ a.sourceTableId = b.sourceTableId
    /\ a.sourceColumnId = b.sourceColumnId
    /\ a.targetTableId = b.targetTableId
    /\ a.targetColumnId = b.targetColumnId

\* C1: after deleteTable(T.id) of a stored table T the store holds no column
\* of T and no relationship whose source or target table is T or whose source
\* or target column was a column of T.
C1_DeleteTableCascades ==
    [][(last'.op = "deleteTable" /\ Has(Store.schemaTables, last'.arg.id)) =>
        LET id == last'.arg.id
            columnsOfT == {c.id : c \in {x \in Store.columns : x.tableId = id}}
        IN  /\ \A c \in Store'.columns : c.tableId # id
            /\ \A r \in Store'.relationships :
                  /\ r.sourceTableId # id
                  /\ r.targetTableId # id
                  /\ r.sourceColumnId \notin columnsOfT
                  /\ r.targetColumnId \notin columnsOfT]_vars

\* C2: a createColumn or updateColumn call that sets isPrimaryKey = true
\* leaves the stored column with nullable = false, whatever nullable value
\* came with the call.
C2_PrimaryKeyNotNullable ==
    [][/\ (/\ last'.op = "createColumn"
           /\ last'.out = "ok"
           /\ last'.arg.isPrimaryKey) =>
              ~Get(Store'.columns, last'.ret).nullable
       /\ (/\ last'.op = "updateColumn"
           /\ last'.out = "ok"
           /\ "isPrimaryKey" \in DOMAIN last'.arg.updates
           /\ last'.arg.updates.isPrimaryKey) =>
              ~Get(Store'.columns, last'.arg.id).nullable]_vars

\* C3: in every reachable state every stored relationship's sourceColumnId
\* and targetColumnId name columns that are in the store.
C3_RelationshipColumnsExist ==
    \A r \in Store.relationships :
        Has(Store.columns, r.sourceColumnId) /\ Has(Store.columns, r.targetColumnId)

\* C4: after deleteColumn(c) no stored relationship has c as source or target
\* column, and every relationship that did not reference c is still stored
\* with the same references.
C4_DeleteColumnCascades ==
    [][last'.op = "deleteColumn" =>
        LET c == last'.arg.id
        IN  /\ \A r \in Store'.relationships :
                  r.sourceColumnId # c /\ r.targetColumnId # c
            /\ \A r \in Store.relationships :
                  (r.sourceColumnId # c /\ r.targetColumnId # c) =>
                      \E r2 \in Store'.relationships : SameRelationship(r, r2)]_vars

\* C5: after deleteProject(p) of a stored project p the store holds no project
\* p, no table of p, no column of a table of p, no relationship of p and no
\* canvas state of p, and the entities of every other project are unchanged.
C5_DeleteProjectCascades ==
    [][(last'.op = "deleteProject" /\ Has(Store.projects, last'.arg.id)) =>
        LET p == last'.arg.id
            tablesOfP == {t.id : t \in {x \in Store.schemaTables : x.projectId = p}}
        IN  /\ ~Has(Store'.projects, p)
            /\ \A t \in Store'.schemaTables : t.projectId # p
            /\ \A c \in Store'.columns : c.tableId \notin tablesOfP
            /\ \A r \in Store'.relationships : r.projectId # p
            /\ p \notin CanvasStates'
            /\ {e \in Store'.projects : e.id # p} = {e \in Store.projects : e.id # p}
            /\ {e \in Store'.schemaTables : e.projectId # p}
                 = {e \in Store.schemaTables : e.projectId # p}
            /\ {e \in Store'.columns : e.tableId \notin tablesOfP}
                 = {e \in Store.columns : e.tableId \notin tablesOfP}
            /\ {e \in Store'.relationships : e.projectId # p}
                 = {e \in Store.relationships : e.projectId # p}
            /\ CanvasStates' \ {p} = CanvasStates \ {p}]_vars

\* C6: createRelationship between two stored columns of different dataType
\* fails with the type-mismatch error and stores nothing under the default
\* options, and succeeds and stores the relationship with
\* validateDataTypes = false.
C6_TypeValidation ==
    [][(/\ last'.op = "createRelationship"
        /\ Has(Store.columns, last'.arg.data.sourceColumnId)
        /\ Has(Store.columns, last'.arg.data.targetColumnId)
        /\ Get(Store.columns, last'.arg.data.sourceColumnId).dataType
             # Get(Store.columns, last'.arg.data.targetColumnId).dataType) =>
        IF last'.arg.validateDataTypes
        THEN /\ last'.out = "TypeMismatch"
             /\ Ids(Store'.relationships) = Ids(Store.relationships)
        ELSE /\ last'.out = "ok"
             /\ Has(Store'.relationships, last'.ret)]_vars

\* C7: createRelationship fails whenever its source or its target column is
\* not in the store, and then the stored relationships and every stored
\* entity's timestamps are what they were before the call.
C7_MissingColumnRejected ==
    [][(/\ last'.op = "createRelationship"
        /\ \/ ~Has(Store.columns, last'.arg.data.sourceColumnId)
           \/ ~Has(Store.columns, last'.arg.data.targetColumnId)) =>
        /\ last'.out # "ok"
        /\ Store' = Store]_vars

\* a rejected request made while a relationship is stored and the clock has
\* moved past a stored entity's timestamp
C7_Witness ==
    /\ last.op = "createRelationship"
    /\ last.out \in {"ColumnNotFound", "ProjectNotFound"}
    /\ \/ ~Has(Store.columns, last.arg.data.sourceColumnId)
       \/ ~Has(Store.columns, last.arg.data.targetColumnId)
    /\ Store.relationships # {}
    /\ \E e \in Store.projects \cup Store.relationships : e.updatedAt < now

\* the position of the last occurrence of id in ids
LastIndex(ids, id) ==
    CHOOSE i \in 1..Len(ids) : ids[i] = id /\ \A j \in (i + 1)..Len(ids) : ids[j] # id

\* the columns of cols that ids names come in the order of ids
InOrderOf(cols, ids) ==
    \A i, j \in 1..Len(cols) :
        (i < j /\ cols[i].id \in Range(ids) /\ cols[j].id \in Range(ids)) =>
            LastIndex(ids, cols[i].id) < LastIndex(ids, cols[j].id)

\* C8: right after reorderColumns(tableId, ids), getColumnsByTable(tableId)
\* returns the columns named in ids in the order in which ids lists them
\* (an id listed more than once counts at its last occurrence).
C8_ReorderThenGet ==
    last.op = "reorderColumns" =>
        InOrderOf(getColumnsByTable(World, last.arg.tableId), last.arg.columnIds)

\* a reorder that put two columns of the table in the opposite of their
\* creation order, with both returned
C8_Witness ==
    /\ last.op = "reorderColumns"
    /\ last.out = "ok"
    /\ LET cols == getColumnsByTable(World, last.arg.tableId)
       IN  \E i, j \in 1..Len(cols) :
               /\ i < j
               /\ cols[i].id > cols[j].id
               /\ {cols[i].id, cols[j].id} \subseteq Range(last.arg.columnIds)

\* C9: reorderColumns(tableId, ids) keeps every column of the table that ids
\* omits: it is still stored afterwards, with the orderIndex it had.
C9_PartialReorder ==
    [][last'.op = "reorderColumns" =>
        \A c \in Store.columns :
            (c.tableId = last'.arg.tableId /\ c.id \notin Range(last'.arg.columnIds)) =>
                /\ Has(Store'.columns, c.id)
                /\ Get(Store'.columns, c.id).orderIndex = c.orderIndex]_vars

\* a successful reorder that names one column of the table, now at
\* orderIndex 0, and omits another, which still has orderIndex 1
C9_Witness ==
    /\ last.op = "reorderColumns"
    /\ last.out = "ok"
    /\ \E c, d \in Store.columns :
           /\ c.tableId = last.arg.tableId
           /\ d.tableId = last.arg.tableId
           /\ c.id \in Range(last.arg.columnIds)
           /\ d.id \notin Range(last.arg.columnIds)
           /\ c.orderIndex = 0
           /\ d.orderIndex = 1

\* C10: a moveTables batch with several entries for one table id leaves that
\* table at the position of the last of them, in the persisted store and,
\* when the batch went through the schema store, in its in-memory tables.
C10_LastWriteWins ==
    [][last'.op \in {"moveTables", "store.moveTables"} =>
        LET moves == last'.arg.moves
        IN  \A i, j \in 1..Len(moves) :
                (/\ i < j
                 /\ moves[i].id = moves[j].id
                 /\ \A k \in (j + 1)..Len(moves) : moves[k].id # moves[j].id) =>
                    /\ Has(Store.schemaTables, moves[j].id) =>
                           Get(Store'.schemaTables, moves[j].id).position
                               = moves[j].position
                    /\ (last'.op = "store.moveTables" /\ Has(mem.tables, moves[j].id)) =>
                           Get(mem'.tables, moves[j].id).position = moves[j].position]_vars

\* the entities of a store without their timestamps
Sans(S) == {[f \in DOMAIN e \ {"updatedAt"} |-> e[f]] : e \in S}
Graph(db) ==
    [projects |-> Sans(db.projects), schemaTables |-> Sans(db.schemaTables),
     columns |-> Sans(db.columns), relationships |-> Sans(db.relationships)]

\* C11: when the same calls, starting from empty stores, go to the local and
\* to the remote realization, each call has the same outcome in both (the
\* same returned id or the same kind of error) and the two stores then hold
\* the same entities, timestamps aside.
C11_RealizationsEquivalent ==
    "remote" \in DOMAIN last =>
        /\ last.out = last.remote.out
        /\ last.ret = last.remote.ret
        /\ Graph(idb) = Graph(pg)

\* the graph a project owns in a store: its tables, their columns, its
\* relationships
ProjectGraph(db, p) ==
    LET tables == {e \in db.schemaTables : e.projectId = p}
    IN  [tables |-> tables,
         columns |-> {c \in db.columns : c.tableId \in Ids(tables)},
         relationships |-> {r \in db.relationships : r.projectId = p}]

Bijections(A, B) == {f \in [A -> B] : \A b \in B : \E a \in A : f[a] = b}

\* G and H are the same graph under a renaming of table and column ids
Isomorphic(G, H) ==
    /\ Cardinality(G.tables) = Cardinality(H.tables)
    /\ Cardinality(G.columns) = Cardinality(H.columns)
    /\ Cardinality(G.relationships) = Cardinality(H.relationships)
    /\ \E ft \in Bijections(Ids(G.tables), Ids(H.tables)),
          fc \in Bijections(Ids(G.columns), Ids(H.columns)) :
           /\ \A c \in G.columns :
                 LET d == Get(H.columns, fc[c.id])
                 IN  /\ d.tableId = ft[c.tableId]
                     /\ d.dataType = c.dataType
                     /\ d.nullable = c.nullable
                     /\ d.isPrimaryKey = c.isPrimaryKey
                     /\ d.orderIndex = c.orderIndex
           /\ \A r \in G.relationships :
                 /\ {r.sourceTableId, r.targetTableId} \subseteq Ids(G.tables)
                 /\ {r.sourceColumnId, r.targetColumnId} \subseteq Ids(G.columns)
                 /\ \E q \in H.relationships :
                       /\ q.sourceTableId = ft[r.sourceTableId]
                       /\ q.targetTableId = ft[r.targetTableId]
                       /\ q.sourceColumnId = fc[r.sourceColumnId]
                       /\ q.targetColumnId = fc[r.targetColumnId]

\* C12: importing exportToJSON(P) into a fresh empty project D succeeds and
\* leaves D with a graph that is P's graph under a renaming of ids (the same
\* tables, the same columns per table, the same relationships between the
\* corresponding columns).
C12_RoundTrip ==
    [][last'.op = "exportThenImport" =>
        /\ last'.out = "ok"
        /\ Isomorphic(ProjectGraph(Store, last'.arg.source),
                      ProjectGraph(Store', last'.arg.destination))]_vars

\* C13: importFromJSON into a destination project D, under either
\* realization, leaves every table, column and relationship D owned before
\* the call in the store with the same id and the same field values
\* (modification stamps aside), and the entities it adds to D carry ids the
\* store did not hold before.
C13_ImportPreservesDestination ==
    [][last'.op = "importFromJSON" =>
        LET before == ProjectGraph(Store, last'.arg.projectId)
            after == ProjectGraph(Store', last'.arg.projectId)
        IN  /\ Sans(before.tables) \subseteq Sans(after.tables)
            /\ Sans(before.columns) \subseteq Sans(after.columns)
            /\ Sans(before.relationships) \subseteq Sans(after.relationships)
            /\ (Ids(after.tables) \ Ids(before.tables))
                   \cap Ids(Store.schemaTables) = {}
            /\ (Ids(after.columns) \ Ids(before.columns))
                   \cap Ids(Store.columns) = {}
            /\ (Ids(after.relationships) \ Ids(before.relationships))
                   \cap Ids(Store.relationships) = {}]_vars

\* the entries of a document whose references resolve inside the document
DocTableIds(schema) == {schema.tables[i].id : i \in 1..Len(schema.tables)}
DocResolvedColumns(schema) ==
    {k \in 1..Len(schema.columns) : schema.columns[k].tableId \in DocTableIds(schema)}
DocResolvedRelationships(schema) ==
    LET columnIds == {schema.columns[k].id : k \in DocResolvedColumns(schema)}
    IN  {k \in 1..Len(schema.relationships) :
            /\ schema.relationships[k].sourceTableId \in DocTableIds(schema)
            /\ schema.relationships[k].targetTableId \in DocTableIds(schema)
            /\ schema.relationships[k].sourceColumnId \in columnIds
            /\ schema.relationships[k].targetColumnId \in columnIds}
DocTablesNamed(schema) ==
    \A i \in 1..Len(schema.tables) :
        Fld(schema.tables[i], [name |-> "t"], "name") # Null

C15_UpdateProjectNotFound ==
    [][(last'.op = "updateProject" /\ ~Has(Store.projects, last'.arg.id)) =>
        /\ last'.out = "ProjectNotFound"
        /\ UNCHANGED <<idb, pg, cache, localStorage>>]_vars

\* C16: createColumn with a tableId that names no stored table fails with a
\* not-found error and leaves the stored columns as they were.
C16_CreateColumnNotFound ==
    [][(last'.op = "createColumn" /\ ~Has(Store.schemaTables, last'.arg.tableId)) =>
        /\ last'.out \in {"TableNotFound", "ProjectNotFound"}
        /\ Store'.columns = Store.columns]_vars

\* no entity that stays in the store has its updatedAt lowered by the step
StampsKept(before, after) ==
    \A e \in before : \A f \in after : f.id = e.id => f.updatedAt >= e.updatedAt

\* the project of table tableId, when stored, was stamped at or after time t
ProjectStamped(db, tableId, t) ==
    \A p \in db.projects :
        p.id = Get(db.schemaTables, tableId).projectId => p.updatedAt >= t

\* C17: after a successful updateColumn(c) the updatedAt of c, of c's table
\* and of that table's project are at least the time of the call; after a
\* successful updateTable(t) the updatedAt of t and of t's project are at
\* least the time of the call; and no step lowers the updatedAt of a stored
\* project, table or column.
C17_StampsRefreshed ==
    [][/\ (last'.op = "updateColumn" /\ last'.out = "ok") =>
              /\ Has(Store'.columns, last'.arg.id)
              /\ Get(Store'.columns, last'.arg.id).updatedAt >= now
              /\ Has(Store'.schemaTables, Get(Store'.columns, last'.arg.id).tableId)
              /\ Get(Store'.schemaTables,
                     Get(Store'.columns, last'.arg.id).tableId).updatedAt >= now
              /\ ProjectStamped(Store', Get(Store'.columns, last'.arg.id).tableId, now)
       /\ (last'.op = "updateTable" /\ last'.out = "ok") =>
              /\ Has(Store'.schemaTables, last'.arg.id)
              /\ Get(Store'.schemaTables, last'.arg.id).updatedAt >= now
              /\ ProjectStamped(Store', last'.arg.id, now)
       /\ StampsKept(Store.projects, Store'.projects)
       /\ StampsKept(Store.schemaTables, Store'.schemaTables)
       /\ StampsKept(Store.columns, Store'.columns)]_vars

\* a column created at time 1 was updated at a later time, and its table and
\* project carry the later stamp
C17_Witness ==
    /\ last.op = "updateColumn"
    /\ last.out = "ok"
    /\ now > 1
    /\ \E c \in Store.columns, e \in Store.schemaTables, p \in Store.projects :
          /\ c.id = last.arg.id
          /\ e.id = c.tableId
          /\ p.id = e.projectId
          /\ c.updatedAt = now /\ e.updatedAt = now /\ p.updatedAt = now

\* a column's field values: everything but its id, its table and its stamp
ColumnValues(c) ==
    [f \in DOMAIN c \ {"id", "tableId", "updatedAt"} |-> c[f]]

\* C18: a successful duplicateTable(id) adds exactly one table, whose id is
\* fresh, and one column per column of the source table, with fresh ids and
\* the field values of the source columns; the relationships, the source
\* table and the source table's columns are as before (modification stamps
\* aside).
C18_DuplicateTable ==
    [][(last'.op = "duplicateTable" /\ last'.out = "ok") =>
        LET source == last'.arg.tableId
            sourceColumns == {c \in Store.columns : c.tableId = source}
            newTables == {e \in Store'.schemaTables : e.id \notin Ids(Store.schemaTables)}
            newColumns == {c \in Store'.columns : c.id \notin Ids(Store.columns)}
        IN  /\ Cardinality(Store'.schemaTables) = Cardinality(Store.schemaTables) + 1
            /\ newTables = {Get(Store'.schemaTables, last'.ret)}
            /\ Cardinality(Store'.columns)
                   = Cardinality(Store.columns) + Cardinality(sourceColumns)
            /\ \A c \in newColumns : c.tableId = last'.ret
            /\ \E f \in Bijections(Ids(sourceColumns), Ids(newColumns)) :
                  \A c \in sourceColumns :
                      ColumnValues(Get(newColumns, f[c.id])) = ColumnValues(c)
            /\ Sans(Store'.relationships) = Sans(Store.relationships)
            /\ Sans({Get(Store.schemaTables, source)}) \subseteq Sans(Store'.schemaTables)
            /\ Sans(sourceColumns) \subseteq Sans(Store'.columns)]_vars

QueryOps ==
    {"getTablesByProject", "getColumnsByTable", "getRelationshipsByProject",
     "getRelationshipsByTable"}

\* C19: a query never fails and changes no stored entity, and for a parent
\* id that names no stored project (or table) it returns no rows.
C19_QueriesNeverFail ==
    [][last'.op \in QueryOps =>
        /\ last'.out = "ok"
        /\ UNCHANGED <<idb, pg>>
        /\ (/\ last'.op \in {"getTablesByProject", "getRelationshipsByProject"}
            /\ ~Has(Store.projects, last'.arg.id)) => last'.rows = <<>>
        /\ (/\ last'.op \in {"getColumnsByTable", "getRelationshipsByTable"}
            /\ ~Has(Store.schemaTables, last'.arg.id)) => last'.rows = <<>>]_vars

\* the foreign key clauses of a script for relationship id, as pairs of the
\* statement's position and the clause's position
ForeignKeyClauses(sql, id) ==
    {<<i, k>> \in (1..Len(sql)) \X (1..MaxDocColumns + MaxRelationships + 1) :
        /\ sql[i].kind = "CREATE TABLE"
        /\ k <= Len(sql[i].constraints)
        /\ sql[i].constraints[k].relationship = id}

\* C20: the script generated for SQLite holds no ALTER TABLE statement, and
\* every relationship of the input appears in it as exactly one FOREIGN KEY
\* clause, inside the CREATE TABLE of the relationship's source table.
C20_SqliteInlineForeignKeys ==
    (/\ last.op \in {"generateSQL", "exportToSQL"}
     /\ last.out = "ok"
     /\ last.arg.dialect = SQLDialect.SQLITE) =>
        /\ \A i \in 1..Len(last.sql) : last.sql[i].kind # "ALTER TABLE"
        /\ \A k \in 1..Len(last.arg.schema.relationships) :
              LET rel == last.arg.schema.relationships[k]
                  clauses == ForeignKeyClauses(last.sql, rel.id)
              IN  /\ Cardinality(clauses) = 1
                  /\ \A c \in clauses : last.sql[c[1]].table = rel.sourceTableId

\* the ALTER TABLE statements of a script that add the foreign key of
\* relationship id
AlterTableStatements(sql, id) ==
    {i \in 1..Len(sql) : sql[i].kind = "ALTER TABLE" /\ sql[i].relationship = id}

\* C21: the script generated for PostgreSQL or MySQL holds, for every
\* relationship of the input, exactly one ALTER TABLE ... ADD CONSTRAINT ...
\* FOREIGN KEY statement, so there are as many such statements as
\* relationships.
C21_AlterTablePerRelationship ==
    (/\ last.op \in {"generateSQL", "exportToSQL"}
     /\ last.out = "ok"
     /\ last.arg.dialect \in {SQLDialect.POSTGRESQL, SQLDialect.MYSQL}) =>
        /\ \A k \in 1..Len(last.arg.schema.relationships) :
              Cardinality(AlterTableStatements(
                  last.sql, last.arg.schema.relationships[k].id)) = 1
        /\ Cardinality({i \in 1..Len(last.sql) : last.sql[i].kind = "ALTER TABLE"})
               = Len(last.arg.schema.relationships)

\* C22: deleteProject(id) for an id whose project is already deleted changes
\* no stored entity, and the local and the remote realization answer it the
\* same way (both succeed or both fail with NotFound).
C22_DeleteTwiceConsistent ==
    [][(/\ last'.op = "deleteProject"
        /\ "remote" \in DOMAIN last'
        /\ ~Has(idb.projects, last'.arg.id)
        /\ ~Has(pg.projects, last'.arg.id)) =>
            /\ UNCHANGED <<idb, pg>>
            /\ last'.out = last'.remote.out]_vars

\* the stored list a delete operation looks its id up in
DeleteTarget(db, op) ==
    CASE op = "deleteTable" -> db.schemaTables
      [] op = "deleteColumn" -> db.columns
      [] op = "deleteRelationship" -> db.relationships

\* C23: deleteTable, deleteColumn and deleteRelationship called with an id that
\* is not in the store complete without error and leave every stored entity and
\* every timestamp as it was.
C23_DeleteAbsentIsNoOp ==
    [][(/\ last'.op \in {"deleteTable", "deleteColumn", "deleteRelationship"}
        /\ ~Has(DeleteTarget(Store, last'.op), last'.arg.id)) =>
            /\ last'.out = "ok"
            /\ UNCHANGED <<idb, pg>>]_vars

\* the projects that own a stored table named in a batch of moves
AffectedProjects(db, moves) ==
    {e.projectId : e \in {x \in db.schemaTables :
                              \E i \in 1..Len(moves) : moves[i].id = x.id}}

\* C24: a moveTables call that completes has sent exactly one write for each
\* project owning a moved table, however many of its tables the batch moves.
C24_OneWritePerProject ==
    [][(/\ last'.op = "moveTables"
        /\ "writes" \in DOMAIN last'
        /\ last'.out = "ok") =>
            \A p \in AffectedProjects(Store, last'.arg.moves) :
                Cardinality({i \in 1..Len(last'.writes) : last'.writes[i] = p}) = 1]_vars

\* a document's tables, columns and relationships, timestamps aside
Document(schema) ==
    [tables |-> Sans(Range(schema.tables)), columns |-> Sans(Range(schema.columns)),
     relationships |-> Sans(Range(schema.relationships))]

\* C25: once the updateTable calls of two clients on one project have both
\* ended, however their GETs and PUTs were interleaved, the stored document
\* of the project is the whole document one of them PUT with success (the
\* last writer's), not a mixture of the two.
C25_LastWriterWins ==
    (/\ last.op = "session.updateTable"
     /\ PutsUnderWay = {}
     /\ \A s \in Sessions : inflight.sessions[s].done.out # "none") =>
        \E s \in Sessions :
            /\ inflight.sessions[s].done.out = "ok"
            /\ Document(GET_schema(pg, inflight.sessions[s].done.payload.project.id).body)
                   = Document(inflight.sessions[s].done.payload)

\* C26: a GET of a project's schema answered while a PUT of that project is
\* under way returns the whole document from before the PUT or the whole
\* document the PUT writes.
C26_PutIsAtomic ==
    (/\ last.op = "GET"
     /\ last.out = "ok"
     /\ PutRunning
     /\ inflight.put.projectId = last.arg.id) =>
        \/ Document(last.body) = Document(inflight.put.replaced)
        \/ Document(last.body) = Document(inflight.put.payload)

\* C27: when one document is imported into a project that holds the same
\* entities in the local and in the remote store, both imports end the same way
\* and leave the project with the same tables, columns and relationships, up to
\* a renaming of ids and timestamps.
C27_ImportVariantsEquivalent ==
    [][(/\ last'.op = "importFromJSON"
        /\ "remote" \in DOMAIN last'
        /\ Graph(idb) = Graph(pg)) =>
            /\ last'.out = last'.remote.out
            /\ Isomorphic(ProjectGraph(idb', last'.arg.projectId),
                          ProjectGraph(pg', last'.arg.projectId))]_vars

\* the stored list a lookup by id searches
LookupTarget(db, op) ==
    CASE op = "getTable" -> db.schemaTables
      [] op = "getColumn" -> db.columns
      [] op = "getRelationship" -> db.relationships

\* C28: a lookup by id in the remote store finds an entity exactly when the
\* backend holds it in some project, and then returns that entity, whatever
\* the index maps of the client hold.
C28_LookupFindsWhatExists ==
    [][last'.op \in {"getTable", "getColumn", "getRelationship"} =>
          LET S == LookupTarget(pg, last'.op)
          IN  IF Has(S, last'.arg.id)
              THEN last'.out = "found" /\ last'.entity = Get(S, last'.arg.id)
              ELSE last'.out = "null"]_vars

\* the ids of the rows of a list and of a stored set
RowIds(rows) == {rows[i].id : i \in 1..Len(rows)}

\* C29: after a PUT of document S that the server accepted, GET of the project
\* returns the tables and the columns of S under the ids S gave them, with the
\* table and the data type S gave each column, and nothing else.
C29_PutThenGet ==
    (last.op = "PUT schema" /\ last.out = "ok") =>
        LET S == last.arg.schema
            G == GET_schema(pg, last.arg.id).body
        IN  /\ RowIds(G.tables) = RowIds(S.tables)
            /\ RowIds(G.columns) = RowIds(S.columns)
            /\ RowIds(G.relationships) = RowIds(S.relationships)
            /\ \A i \in 1..Len(G.columns) : \E k \in 1..Len(S.columns) :
                   /\ S.columns[k].id = G.columns[i].id
                   /\ S.columns[k].tableId = G.columns[i].tableId
                   /\ S.columns[k].dataType = G.columns[i].dataType

\* the PRIMARY KEY constraints of a CREATE TABLE statement, each as the set of
\* columns it lists: the ones inside column definitions and the trailing ones
PrimaryKeyConstraints(st) ==
    [inline |-> [k \in 1..Len(st.inlineKeys) |-> {st.inlineKeys[k]}],
     trailing |->
        LET IsKey(c) == c.kind = "PRIMARY KEY"
            Listed(c) == Range(c.columns)
        IN  SeqMap(SelectSeq(st.constraints, IsKey), Listed)]

\* C30: in every dialect the CREATE TABLE of a table with at least one
\* primary-key column holds exactly one PRIMARY KEY constraint, and that
\* constraint lists all primary-key columns of the table.
C30_OnePrimaryKeyConstraint ==
    (last.op = "exportToSQL" /\ last.out = "ok") =>
        \A i \in 1..Len(last.sql) :
            LET st == last.sql[i]
                keys == IF st.kind = "CREATE TABLE"
                        THEN {c.id : c \in {x \in Range(last.arg.schema.columns) :
                                                x.tableId = st.table /\ x.isPrimaryKey}}
                        ELSE {}
                pk == PrimaryKeyConstraints(st)
            IN  keys # {} =>
                    /\ Len(pk.inline) + Len(pk.trailing) = 1
                    /\ \A k \in 1..Len(pk.inline) : pk.inline[k] = keys
                    /\ \A k \in 1..Len(pk.trailing) : pk.trailing[k] = keys

\* C31: for Postgres and MySQL a DECIMAL or NUMERIC column gets the suffix
\* (precision,scale) exactly when both fields are set, whatever integers they
\* hold (0 counts as set), and no suffix when either is absent.
C31_DecimalSuffix ==
    (/\ last.op = "mapDataType"
     /\ last.arg.column.dataType \in {"DECIMAL", "NUMERIC"}) =>
        LET column == last.arg.column
        IN  IF {"precision", "scale"} \subseteq DOMAIN column
            THEN last.type.args = <<column.precision, column.scale>>
            ELSE last.type.args = <<>>

\* the tables an import added to its destination
ImportedTables(before, after) == {e \in after : ~Has(before, e.id)}

\* C32: an import places every table at x >= (largest x of the tables the
\* destination already had) + projectOffsetX and y >= their smallest y, or
\* from the default start when the destination was empty; no two tables of
\* one import share a position; the grid is 1, 2, 3 or 4 tables wide for at
\* most 1, at most 4, at most 9 or more tables.
C32_ImportLayout ==
    [][(last'.op = "importFromJSON" /\ last'.out = "ok") =>
        LET before == ProjectGraph(Store, last'.arg.projectId).tables
            after == ProjectGraph(Store', last'.arg.projectId).tables
            new == ImportedTables(before, after)
            n == Len(last'.arg.schema.tables)
            width == IF n <= 1 THEN 1 ELSE IF n <= 4 THEN 2
                     ELSE IF n <= 9 THEN 3 ELSE 4
        IN  /\ Cardinality(new) = n
            /\ \A e \in new :
                   IF before = {}
                   THEN /\ e.position.x >= IMPORT_LAYOUT.startX
                        /\ e.position.y >= IMPORT_LAYOUT.startY
                   ELSE /\ \A b \in before :
                               e.position.x >= b.position.x + IMPORT_LAYOUT.projectOffsetX
                        /\ \E b \in before : e.position.y >= b.position.y
            /\ \A a, b \in new : a.id # b.id => a.position # b.position
            /\ Cardinality({e.position.x : e \in new}) = IF n < width THEN n ELSE width]_vars

\* an import of ten tables next to two tables that were there: the grid is
\* four wide
C32_Witness ==
    /\ last.op = "importFromJSON"
    /\ last.out = "ok"
    /\ Len(last.arg.schema.tables) = MaxImported
    /\ Cardinality(ProjectGraph(Store, last.arg.projectId).tables) = MaxImported + 2
    /\ Cardinality({e.position.x : e \in ProjectGraph(Store, last.arg.projectId).tables}) > 4

\* the columns, tables and relationships of a store whose owner is not stored
Orphans(db) ==
    [columns |-> {e \in db.columns : ~Has(db.schemaTables, e.tableId)},
     tables |-> {e \in db.schemaTables : ~Has(db.projects, e.projectId)},
     relationships |-> {e \in db.relationships : ~Has(db.projects, e.projectId)}]

\* C33: after any sequence of store operations every stored column belongs
\* to a stored table, and every stored table and relationship belongs to a
\* stored project.
C33_NoOrphans ==
    /\ Orphans(idb) = [columns |-> {}, tables |-> {}, relationships |-> {}]
    /\ Orphans(pg) = [columns |-> {}, tables |-> {}, relationships |-> {}]

\* C34: in backend mode exportToSQL (through exportToJSON) answers with the
\* tables, columns and relationships the remote store holds for the project.
C34_ExportReadsSelectedStore ==
    (/\ last.op = "exportToSQL"
     /\ mode = "backend"
     /\ Has(pg.projects, last.arg.projectId)) =>
        LET remote == ProjectGraph(pg, last.arg.projectId)
            schema == last.arg.schema
        IN  /\ last.out = "ok"
            /\ Range(schema.tables) = remote.tables
            /\ Range(schema.columns) = remote.columns
            /\ Range(schema.relationships) = remote.relationships

\* the maps hold exactly what the store holds for the loaded project,
\* updatedAt aside
Mirrors(m, db) ==
    LET held == ProjectGraph(db, m.currentProjectId)
    IN  /\ Sans(m.tables) = Sans(held.tables)
        /\ Sans(m.columns) = Sans(held.columns)
        /\ Sans(m.relationships) = Sans(held.relationships)

StoreActions ==
    {"store.addTable", "store.updateTable", "store.deleteTable", "store.moveTables",
     "store.duplicateTable", "store.addColumn", "store.updateColumn",
     "store.deleteColumn", "store.reorderColumns", "store.addRelationship",
     "store.updateRelationship", "store.deleteRelationship"}

\* C35: when the maps of the schema store mirror the backing store and an
\* action of the schema store on the loaded project completes, the maps
\* mirror the backing store again: the same entities with the same field
\* values, updatedAt aside.
C35_StoreMirrorsBackingStore ==
    [][(/\ last'.op \in StoreActions
        /\ last'.out = "ok"
        /\ Mirrors(mem, Store)) => Mirrors(mem', Store')]_vars

\* C36: reorderColumns(tableId, ids) leaves every column of every other
\* table as it was, whatever ids the list holds.
C36_ReorderTouchesOwnTableOnly ==
    [][last'.op = "reorderColumns" =>
        \A c \in Store.columns :
            c.tableId # last'.arg.tableId => c \in Store'.columns]_vars

\* C37: when PUT /projects/:id/schema ends in an error, the project's stored
\* tables, columns and relationships are what they were before the request.
C37_FailedPutChangesNothing ==
    [][(last'.op = "PUT schema" /\ last'.out # "ok") =>
        ProjectGraph(pg', last'.arg.id) = ProjectGraph(pg, last'.arg.id)]_vars

\* C38: an importFromJSON call that completes has written one table per
\* table of the document, one column per column whose table resolves and one
\* relationship per relationship whose references resolve, all of them to the
\* store of the mode that was selected when the call started, and nothing to
\* the other store, also when the mode was switched while the call ran.
C38_ImportWritesOneStore ==
    (last.op = "importFromJSON" /\ last.out = "ok") =>
        LET imp == last.arg
            backend == imp.started = "backend"
            own == IF backend THEN pg ELSE idb
            ownBefore == IF backend THEN imp.before.pg ELSE imp.before.idb
            other == IF backend THEN idb ELSE pg
            otherBefore == IF backend THEN imp.before.idb ELSE imp.before.pg
        IN  /\ other = otherBefore
            /\ Cardinality(Ids(own.schemaTables) \ Ids(ownBefore.schemaTables))
                   = Len(imp.schema.tables)
            /\ Cardinality(Ids(own.columns) \ Ids(ownBefore.columns))
                   = Cardinality(DocResolvedColumns(imp.schema))
            /\ Cardinality(Ids(own.relationships) \ Ids(ownBefore.relationships))
                   = Cardinality(DocResolvedRelationships(imp.schema))

\* C39: once every loadProject call has completed, the schema store shows the
\* most recent request: the graph of the project asked for last, or nothing
\* when clearProject came last.
C39_LatestRequestWins ==
    (/\ last.op \in {"store.loadProject", "store.clearProject"}
     /\ inflight.loads # <<>>
     /\ \A k \in 1..Len(inflight.loads) : inflight.loads[k].pc = "done") =>
        IF last.op = "store.clearProject" THEN mem = EmptyMem
        ELSE /\ mem.currentProjectId = last.arg.id
             /\ Mirrors(mem, Store)

====
